---- MODULE Spec2Model ----
(***************************************************************************)
(* Booking lifecycle of the clinic reservation system: BookingService,      *)
(* BookingValidator, the booking cache (CacheClient) and the PaymentService *)
(* operations that write the bookings table; DoctorAvailabilityService and  *)
(* RateLimiter.  Spec runs the booking and payment operations with two      *)
(* request workers; SpecAvailability the availability service next to       *)
(* createBooking and updateBooking; SpecRateLimit the rate limiter;         *)
(* SpecValidator the validator alone.                                       *)
(*                                                                          *)
(* Storage is PostgreSQL reached through the Aurora client: statements run  *)
(* with query() commit on their own; statements run with                    *)
(* queryWithTransaction() are buffered in the caller's transaction and      *)
(* become visible at commitTransaction().  Every await of the source is a   *)
(* point at which another request may run.                                  *)
(*                                                                          *)
(* Times are minutes since Sunday 00:00 of the modelled week.  Amounts are  *)
(* yen; the modelled prices make every percentage an exact quotient.        *)
(* Audit columns (created_at, updated_at, created_by, updated_by), notes,   *)
(* symptoms and payment_status are not read by any modelled code path and   *)
(* are left out of the rows.                                                *)
(*                                                                          *)
(* The reads of one validation (validateCreateBooking, validateUpdateBooking *)
(* with the getBooking that follows it, validateCancellation) are taken at  *)
(* one instant; the writes that follow them are separate steps.  Row locks  *)
(* only delay a statement until the lock holder commits, an order the steps *)
(* already allow.  Database failures are modelled where the code handles    *)
(* them (the try/catch around a transaction); cache failures are modelled   *)
(* everywhere, since CacheClient turns them into null or false.             *)
(***************************************************************************)
EXTENDS Integers, Sequences, FiniteSets, Bags, TLC

None == "none"
\* no booking id (an absent excludeBookingId, a call that drew no uuid yet)
NoId == 0

(***************************************************************************)
(* Bounds of the model.                                                     *)
(***************************************************************************)
\* number of booking ids (uuidv4 values) available to createBooking
MaxBookings == 2
\* number of payment intents createPaymentIntent may store
MaxIntents == 1
\* number of createBooking, updateBooking and cancelBooking requests that pass
\* validation; none is received after that
MaxCalls == 3

\* number of rate-limit windows the clock runs through
MaxWindows == 2

BookingIds == 1..MaxBookings
Procs == {"w1", "w2"}

(***************************************************************************)
(* Time.                                                                    *)
(***************************************************************************)
MinutesPerDay == 24 * 60
At(day, hh, mm) == day * MinutesPerDay + hh * 60 + mm
\* Date.getDay() and Date.toTimeString().slice(0, 5) of validateTimeSlot
getDay(t) == (t \div MinutesPerDay) % 7
toTimeString(t) == t % MinutesPerDay
\* new Date() of the modelled requests: Monday 08:15
Now == At(1, 8, 15)
T0930 == At(1, 9, 30)
T1030 == At(1, 10, 30)
T1300 == At(1, 13, 0)
\* maxBookingDate.setMonth(getMonth() + 3), taken as 13 weeks
maxBookingDate == Now + 13 * 7 * MinutesPerDay
\* new Date(now.getTime() + 60 * 60 * 1000)
minimumNotice == Now + 60

(***************************************************************************)
(* Reference data (rows of doctors, patients, service_types,               *)
(* doctor_schedules, cancellation_policies, patient_insurance).             *)
(***************************************************************************)
doctors == [d1 |-> [is_active |-> TRUE, clinic_id |-> "c1"],
            d2 |-> [is_active |-> TRUE, clinic_id |-> "c1"]]
patients == [p1 |-> [is_active |-> TRUE],
             p2 |-> [is_active |-> TRUE]]
service_types == [s1 |-> [is_active |-> TRUE, base_price |-> 1000, insurance_covered |-> TRUE],
                  s2 |-> [is_active |-> TRUE, base_price |-> 500, insurance_covered |-> FALSE]]
doctor_schedules ==
  { [doctor_id |-> "d1", day_of_week |-> 1, start_time |-> 9 * 60, end_time |-> 12 * 60,
     slot_duration_minutes |-> 30, service_type_id |-> "s1", is_active |-> TRUE],
    [doctor_id |-> "d1", day_of_week |-> 1, start_time |-> 9 * 60, end_time |-> 12 * 60,
     slot_duration_minutes |-> 30, service_type_id |-> "s2", is_active |-> TRUE],
    [doctor_id |-> "d2", day_of_week |-> 2, start_time |-> 9 * 60, end_time |-> 12 * 60,
     slot_duration_minutes |-> 30, service_type_id |-> "s1", is_active |-> TRUE] }
cancellation_policies ==
  { [clinic_id |-> "c1", is_active |-> TRUE, minimum_hours_notice |-> 2,
     penalty_percentage |-> 50] }
\* the insurance records that may exist: i1 belongs to p1
insurance_rows == [i1 |-> [patient_id |-> "p1", is_active |-> TRUE, expired |-> FALSE,
                           coverage_percentage |-> 70],
                   i2 |-> [patient_id |-> "p1", is_active |-> TRUE, expired |-> FALSE,
                           coverage_percentage |-> 0],
                   i3 |-> [patient_id |-> "p1", is_active |-> TRUE, expired |-> FALSE,
                           coverage_percentage |-> 100]]

\* RATE_LIMITS['POST /payments'] over DEFAULT_CONFIG
windowMs == 60000
maxRequests == 5
\* the window starts of the modelled time span
Windows == { k * windowMs : k \in 0..(MaxWindows - 1) }
\* the clock advances in steps of 22.5 s
TickMs == 45 * 500
\* requests the identifier sends in all, at most
MaxSent == maxRequests + 2
\* a rate-limit key Redis does not hold (expireAt 0: no TTL set)
NoCounter == [count |-> 0, expireAt |-> 0]
NoSent == [requests |-> 0, reached |-> 0]

\* cancelled_at of a row that was never cancelled (NULL)
NoTime == At(0, 0, 0)
NonTerminal == {"pending", "confirmed"}

(***************************************************************************)
(* State.                                                                   *)
(***************************************************************************)
VARIABLES
  bookings,           \* bookings table: id -> row
  qr_codes,           \* qr_codes table: the reference_id of each row
  cancellation_fees,  \* cancellation_fees table: bag of [booking_id, amount, percentage]
  patient_insurance,  \* ids of the patient_insurance rows present
  payment_intents,    \* payment_intents table: set of [booking_id, status]
  cache,              \* Redis key booking:<id> -> the cached booking (a set: empty when absent)
  pc,                 \* position of each request worker
  local,              \* the running call's arguments and locals
  tx,                 \* the running call's open transaction (buffered statements)
  response,           \* what the call that just ended gave its caller, or NoResp
  calls,              \* number of booking write requests accepted so far
  schedule_rows,      \* doctor_schedules table
  blocked_slots,      \* blocked_slots table: set of [doctor_id, blocked_time]
  availability,       \* Redis keys availability:<doctor>:<date>[:<service>] -> cached value
  clock,              \* Date.now() of the rate limiter, in ms
  rate_cache,         \* Redis rate-limit keys: window -> [count, expireAt]
  rate_dynamo,        \* DynamoDB rate-limit items: window -> count
  sent,               \* requests the identity has sent so far: window -> numbers
  policy_rows,        \* cancellation_policies table
  effects,            \* the running call's cache, notification and transaction calls so far
  bucket              \* a TokenBucket object: capacity, refillRate, tokens, lastRefill

\* state of the availability service and of the rate limiter
availVars == <<schedule_rows, blocked_slots, availability>>
rateVars == <<clock, rate_cache, rate_dynamo, sent>>
policyVars == <<policy_rows>>
effectVars == <<effects>>
bucketVars == <<bucket>>
\* state of the booking and payment services, but for the response
bookingVars == <<bookings, qr_codes, cancellation_fees, patient_insurance, payment_intents,
                 cache, pc, local, tx, calls>>

vars == <<bookings, qr_codes, cancellation_fees, patient_insurance, payment_intents,
          cache, pc, local, tx, response, calls, availVars, rateVars, policyVars,
          effectVars, bucketVars>>

\* the input of a call that takes none
NoInput == [absent |-> TRUE]
NoLocal == [bookingId |-> NoId, input |-> NoInput, userId |-> None, userType |-> None]
\* each buffered statement is a set: empty, or the one row it writes
NoTx == [booking |-> {}, qr |-> FALSE, cancel |-> {}, fee |-> {}, schedule |-> {}]

Resp(op, error, bookingId, input, userId, userType, ret) ==
  [op |-> op, error |-> error, bookingId |-> bookingId, input |-> input,
   userId |-> userId, userType |-> userType, ret |-> ret]

NoResp == Resp(None, None, NoId, NoInput, None, None, {})
TransientInfraError == "TransientInfraError"

\* getDoctorAvailabilityRange: if (daysDiff > 30)
MaxRangeDays == 30
\* the calendar date of a time, and the date the modelled availability requests ask for
DateOf(t) == t \div MinutesPerDay
Today == DateOf(Now)
\* the Redis key availability:<doctorId>:<date>:<suffix>; createBooking deletes the
\* key without a suffix, availability:<doctorId>:<date>
NoSuffix == ""
AvailabilityKey(doctorId, date, suffix) == <<doctorId, date, suffix>>
\* the dates of the modelled requests on which d1 has a schedule (the Mondays), the
\* only dates for which an availability key is ever written
ScheduledDates ==
  { date \in Today..(Today + MaxRangeDays + 2) : getDay(date * MinutesPerDay) = 1 }
AvailabilityKeys ==
  { AvailabilityKey("d1", date, x) : date \in ScheduledDates, x \in {NoSuffix, "all", "s1"} }

\* new TokenBucket(capacity, refillRate) at time now.  Token counts are held in
\* thousandths of a token, so that (timePassed / 1000) * refillRate is timePassed *
\* refillRate.
TokenBucket(capacity, refillRate, now) ==
  [capacity |-> capacity * 1000, refillRate |-> refillRate,
   tokens |-> capacity * 1000, lastRefill |-> now]

Init ==
  /\ bookings = <<>>
  /\ qr_codes = {}
  /\ cancellation_fees = EmptyBag
  /\ patient_insurance = {"i1"}
  /\ payment_intents = {}
  /\ cache = [b \in BookingIds |-> {}]
  /\ pc = [p \in Procs |-> "idle"]
  /\ local = [p \in Procs |-> NoLocal]
  /\ tx = [p \in Procs |-> NoTx]
  /\ response = NoResp
  /\ calls = 0
  /\ schedule_rows = doctor_schedules
  /\ blocked_slots = {}
  /\ availability = [k \in AvailabilityKeys |-> {}]
  /\ clock = 0
  /\ rate_cache = [w \in Windows |-> NoCounter]
  /\ rate_dynamo = [w \in Windows |-> 0]
  /\ sent = [w \in Windows |-> NoSent]
  /\ policy_rows = cancellation_policies
  /\ effects = [p \in Procs |-> <<>>]
  /\ bucket = TokenBucket(1, 1, 0)


(***************************************************************************)
(* BookingValidator.                                                        *)
(***************************************************************************)
\* Joi.date().iso(): with convert on (Joi's default) the validated value holds a
\* Date object in place of the ISO string of the request
JoiDate(v) == [type |-> "Date", t |-> v.t]
StringTime(t) == [type |-> "string", t |-> t]

\* createBookingSchema.validate(input): {error, value}
createBookingSchema(input) ==
  IF input.appointmentTime.t > Now
  THEN [error |-> None, value |-> [input EXCEPT !.appointmentTime = JoiDate(@)]]
  ELSE [error |-> "Validation error", value |-> None]

validateDoctor(doctorId) ==
  IF doctorId \notin DOMAIN doctors THEN {"Doctor not found"}
  ELSE IF ~doctors[doctorId].is_active THEN {"Doctor is not active"}
  ELSE {}

validatePatient(patientId) ==
  IF patientId \notin DOMAIN patients THEN {"Patient not found"}
  ELSE IF ~patients[patientId].is_active THEN {"Patient account is not active"}
  ELSE {}

validateServiceType(serviceTypeId, doctorId) ==
  IF serviceTypeId \notin DOMAIN service_types THEN {"Service type not found"}
  ELSE IF ~service_types[serviceTypeId].is_active THEN {"Service type is not active"}
  ELSE IF \A ds \in schedule_rows :
            ~(ds.doctor_id = doctorId /\ ds.service_type_id = serviceTypeId /\ ds.is_active)
       THEN {"Doctor does not provide this service type"}
  ELSE {}

\* fault: the conflict query with status = 'confirmed' in place of
\* status IN ('confirmed', 'pending')
conflictResult_confirmedOnly(doctorId, t, excludeBookingId, bks) ==
  { b \in DOMAIN bks :
      /\ bks[b].doctor_id = doctorId
      /\ bks[b].appointment_time = t
      /\ bks[b].status \in {"confirmed"}
      /\ b # excludeBookingId }

\* the conflict query of validateTimeSlot, on the committed rows bks
conflictResult(doctorId, t, excludeBookingId, bks) ==
  { b \in DOMAIN bks :
      /\ bks[b].doctor_id = doctorId
      /\ bks[b].appointment_time = t
      /\ bks[b].status \in {"confirmed", "pending"}
      /\ b # excludeBookingId }

\* fault: validateTimeSlot without its minimum-notice check
validateTimeSlot_noMinimumNotice(doctorId, t, excludeBookingId, bks) ==
  LET scheduleResult ==
        { ds \in schedule_rows :
            /\ ds.doctor_id = doctorId
            /\ ds.day_of_week = getDay(t)
            /\ ds.is_active
            /\ ds.start_time <= toTimeString(t)
            /\ ds.end_time > toTimeString(t) }
  IN IF scheduleResult = {} THEN {"Doctor is not available at this time"}
     ELSE IF conflictResult(doctorId, t, excludeBookingId, bks) # {}
          THEN {"This time slot is already booked"}
     ELSE IF t > maxBookingDate
          THEN {"Cannot book appointments more than 3 months in advance"}
     ELSE {}

validateTimeSlot(doctorId, t, excludeBookingId, bks) ==
  LET scheduleResult ==
        { ds \in schedule_rows :
            /\ ds.doctor_id = doctorId
            /\ ds.day_of_week = getDay(t)
            /\ ds.is_active
            /\ ds.start_time <= toTimeString(t)
            /\ ds.end_time > toTimeString(t) }
  IN IF scheduleResult = {} THEN {"Doctor is not available at this time"}
     ELSE IF conflictResult(doctorId, t, excludeBookingId, bks) # {}
          THEN {"This time slot is already booked"}
     ELSE IF t > maxBookingDate
          THEN {"Cannot book appointments more than 3 months in advance"}
     ELSE IF t < minimumNotice
          THEN {"Appointments must be booked at least 1 hour in advance"}
     ELSE {}

validateInsurance(insuranceId, patientId, ins) ==
  IF insuranceId \notin ins \/ insurance_rows[insuranceId].patient_id # patientId
  THEN {"Insurance information not found"}
  ELSE IF ~insurance_rows[insuranceId].is_active THEN {"Insurance is not active"}
  ELSE IF insurance_rows[insuranceId].expired THEN {"Insurance has expired"}
  ELSE {}

\* validateCreateBooking: the errors the call may throw (none: it returns value).
\* The checks run concurrently under Promise.all, which rejects with whichever
\* check rejects first.  Requests of the model carry no paymentMethodId.
validateCreateBooking(input, bks, ins) ==
  LET v == createBookingSchema(input) IN
  IF v.error # None THEN {v.error}
  ELSE validateDoctor(input.doctorId)
       \cup validatePatient(input.patientId)
       \cup validateServiceType(input.serviceTypeId, input.doctorId)
       \cup validateTimeSlot(input.doctorId, input.appointmentTime.t, NoId, bks)
       \cup (IF input.insuranceId # None
             THEN validateInsurance(input.insuranceId, input.patientId, ins) ELSE {})

(***************************************************************************)
(* Transactions of the Aurora client.                                       *)
(***************************************************************************)
TheOne(S) == CHOOSE x \in S : TRUE
\* all the orders in which the rows S can be listed
Orderings(S) ==
  { seq \in [1..Cardinality(S) -> S] : { seq[i] : i \in DOMAIN seq } = S }

rollbackTransaction(t) == NoTx

\* commitTransaction on the bookings, qr_codes and cancellation_fees tables
commitBookings(t, id, bks) ==
  LET ins == IF t.booking # {} THEN bks @@ (id :> TheOne(t.booking)) ELSE bks
  IN IF t.cancel # {}
     THEN [ins EXCEPT ![id] = [@ EXCEPT !.status = "cancelled",
                                        !.cancellation_reason = TheOne(t.cancel).reason,
                                        !.cancelled_at = TheOne(t.cancel).at,
                                        !.cancelled_by = TheOne(t.cancel).by]]
     ELSE ins
commitQrCodes(t, id, qrs) == IF t.qr THEN qrs \cup {id} ELSE qrs
\* fault: a commit that loses the cancellation_fees INSERT
commitFees_dropsFee(t, fees) == fees
commitFees(t, fees) == IF t.fee # {} THEN fees (+) SetToBag(t.fee) ELSE fees

(***************************************************************************)
(* BookingService.createBooking.                                            *)
(***************************************************************************)
\* lines 48-79: total, insurance covered and patient payment amounts
Pricing(input, ins) ==
  LET service == service_types[input.serviceTypeId]
      totalAmount == service.base_price
  IN IF input.insuranceId # None /\ service.insurance_covered
     THEN IF input.insuranceId \in ins
          THEN LET coveragePercentage ==
                     IF insurance_rows[input.insuranceId].coverage_percentage # 0
                     THEN insurance_rows[input.insuranceId].coverage_percentage ELSE 70
                   covered == (totalAmount * coveragePercentage) \div 100
               IN [total |-> totalAmount, insurance |-> covered,
                   patient |-> totalAmount - covered]
          ELSE [total |-> totalAmount, insurance |-> 0, patient |-> 0]
     ELSE [total |-> totalAmount, insurance |-> 0, patient |-> totalAmount]

NewBookingRow(id, input, ins) ==
  LET price == Pricing(input, ins) IN
  [id |-> id, patient_id |-> input.patientId, doctor_id |-> input.doctorId,
   service_type_id |-> input.serviceTypeId,
   appointment_time |-> input.appointmentTime.t, status |-> "pending",
   insurance_id |-> input.insuranceId,
   total_amount |-> price.total, insurance_covered_amount |-> price.insurance,
   patient_payment_amount |-> price.patient,
   cancellation_reason |-> None, cancelled_at |-> NoTime, cancelled_by |-> None]

\* String.prototype.slice exists on strings only: appointmentTime.slice(0, 10)
\* of line 138 throws a TypeError on any other value
HasSlice(v) == v.type = "string"

CreateInputs ==
  { [patientId |-> "p1", doctorId |-> "d1", serviceTypeId |-> "s1",
     appointmentTime |-> StringTime(T0930), insuranceId |-> None],
    [patientId |-> "p1", doctorId |-> "d1", serviceTypeId |-> "s1",
     appointmentTime |-> StringTime(T0930), insuranceId |-> "i1"],
    [patientId |-> "p2", doctorId |-> "d1", serviceTypeId |-> "s1",
     appointmentTime |-> StringTime(T1030), insuranceId |-> None],
    [patientId |-> "p0", doctorId |-> "d1", serviceTypeId |-> "s1",
     appointmentTime |-> StringTime(T0930), insuranceId |-> None],
    [patientId |-> "p1", doctorId |-> "d1", serviceTypeId |-> "s1",
     appointmentTime |-> StringTime(T1300), insuranceId |-> None] }

\* uuidv4(): an id no row and no running createBooking holds
FreeIds ==
  BookingIds \ (DOMAIN bookings
                \cup { local[q].bookingId : q \in { r \in Procs : pc[r] \in {"cb_tx", "cb_commit"} } })
MinOf(S) == CHOOSE x \in S : \A y \in S : x <= y

\* the calls a booking operation makes on the transaction, the cache and the
\* notification service, as entries of effects
CommitTransaction == "commitTransaction"
RollbackTransaction == "rollbackTransaction"
CacheSetex == "cacheClient.setex"
CacheDel == "cacheClient.del"
\* a del that does not reach Redis: CacheClient.del logs the error and returns false
CacheDelFailed == "cacheClient.del returns false"
SendNotification == "notificationService.send"
\* the running call of p makes the calls of events, in that order
Did(p, events) == effects' = [effects EXCEPT ![p] = effects[p] \o events]

Finish(p, resp) ==
  /\ pc' = [pc EXCEPT ![p] = "idle"]
  /\ local' = [local EXCEPT ![p] = NoLocal]
  /\ tx' = [tx EXCEPT ![p] = NoTx]
  /\ response' = resp

\* lines 37-42: validateCreateBooking, then uuidv4(), of a request out of inputs
createBooking_from(p, inputs) ==
  /\ pc[p] = "idle" /\ response.op = None /\ calls < MaxCalls
  /\ \E input \in inputs :
       LET errs == validateCreateBooking(input, bookings, patient_insurance) IN
       IF errs # {}
       THEN /\ \E e \in errs :
                 response' = Resp("createBooking", e, NoId, input, None, None, {})
            /\ UNCHANGED <<pc, local, tx, calls>>
       ELSE /\ FreeIds # {}
            /\ calls' = calls + 1
            /\ pc' = [pc EXCEPT ![p] = "cb_tx"]
            /\ local' = [local EXCEPT ![p] =
                           [NoLocal EXCEPT !.bookingId = MinOf(FreeIds),
                                           !.input = createBookingSchema(input).value]]
            /\ UNCHANGED <<tx, response>>
  /\ UNCHANGED <<bookings, qr_codes, cancellation_fees, patient_insurance,
                 payment_intents, cache>>
  /\ UNCHANGED <<availVars, rateVars, policyVars, effectVars, bucketVars>>

createBooking_validate(p) == createBooking_from(p, CreateInputs)

\* updateDoctorAvailabilityCache(doctorId, transactionId), called before the commit:
\* the calls it makes on the cache.  With an active schedule row of the doctor it
\* stores the rows under doctor:schedule:<doctorId>, a key that no code reads.  Its
\* query is taken to succeed.
updateDoctorAvailabilityCache(doctorId, rows) ==
  IF { ds \in rows : ds.doctor_id = doctorId /\ ds.is_active } # {}
  THEN <<CacheSetex>> ELSE <<>>

\* lines 45-122: beginTransaction, pricing queries, INSERT bookings, INSERT qr_codes,
\* updateDoctorAvailabilityCache (which swallows its own failures); any failing
\* statement goes to the catch block: rollbackTransaction and rethrow
createBooking_tx(p) ==
  /\ pc[p] = "cb_tx" /\ response.op = None
  /\ LET input == local[p].input
         id == local[p].bookingId
         inserted == [NoTx EXCEPT !.booking = {NewBookingRow(id, input, patient_insurance)}]
         withQr == [inserted EXCEPT !.qr = TRUE]
     IN \/ /\ tx' = [tx EXCEPT ![p] = withQr]
           /\ pc' = [pc EXCEPT ![p] = "cb_commit"]
           /\ Did(p, updateDoctorAvailabilityCache(input.doctorId, schedule_rows))
           /\ UNCHANGED <<local, response>>
        \/ \E failedAt \in {NoTx, inserted} :
             /\ tx' = [tx EXCEPT ![p] = rollbackTransaction(failedAt)]
             /\ pc' = [pc EXCEPT ![p] = "idle"]
             /\ local' = [local EXCEPT ![p] = NoLocal]
             /\ Did(p, <<RollbackTransaction>>)
             /\ response' = Resp("createBooking", TransientInfraError, id, input,
                                 None, None, {})
  /\ UNCHANGED <<bookings, qr_codes, cancellation_fees, patient_insurance,
                 payment_intents, cache, calls>>
  /\ UNCHANGED <<availVars, rateVars, policyVars, bucketVars>>

\* lines 125-149: commitTransaction, formatBooking, sendBookingConfirmation (not
\* awaited), then the cache invalidation whose argument list calls
\* validatedInput.appointmentTime.slice: a throw there lands in the catch block
\* after the commit, where rollbackTransaction no longer undoes anything (the
\* caller gets the TypeError, or the error of rolling back a finished transaction)
createBooking_commit(p) ==
  /\ pc[p] = "cb_commit" /\ response.op = None
  /\ LET input == local[p].input
         id == local[p].bookingId
         cacheKey == AvailabilityKey(input.doctorId, DateOf(input.appointmentTime.t), NoSuffix)
     IN \/ /\ bookings' = commitBookings(tx[p], id, bookings)
           /\ qr_codes' = commitQrCodes(tx[p], id, qr_codes)
           /\ IF HasSlice(input.appointmentTime)
              THEN /\ \E delOk \in BOOLEAN :
                        /\ availability' = IF delOk /\ cacheKey \in DOMAIN availability
                                           THEN [availability EXCEPT ![cacheKey] = {}]
                                           ELSE availability
                        /\ Did(p, <<CommitTransaction, SendNotification,
                                    IF delOk THEN CacheDel ELSE CacheDelFailed>>)
                   /\ Finish(p, Resp("createBooking", None, id, input, None, None,
                                     {commitBookings(tx[p], id, bookings)[id]}))
              ELSE /\ UNCHANGED availability
                   /\ Did(p, <<CommitTransaction, SendNotification, RollbackTransaction>>)
                   /\ \E e \in {"TypeError", TransientInfraError} :
                        Finish(p, Resp("createBooking", e, id, input, None, None, {}))
        \/ /\ UNCHANGED <<bookings, qr_codes, availability>>
           /\ Did(p, <<RollbackTransaction>>)
           /\ Finish(p, Resp("createBooking", TransientInfraError, id, input,
                             None, None, {}))
  /\ UNCHANGED <<cancellation_fees, patient_insurance, payment_intents, cache, calls>>
  /\ UNCHANGED <<schedule_rows, blocked_slots, rateVars, policyVars, bucketVars>>

(***************************************************************************)
(* BookingService.getBooking and listBookings.                              *)
(***************************************************************************)
\* the (userId, userType) pairs requests carry; userType is whatever string the
\* caller of the service passes
Requesters ==
  { [userId |-> "p1", userType |-> "patient"],
    [userId |-> "d1", userType |-> "doctor"], [userId |-> "d2", userType |-> "doctor"],
    [userId |-> "p2", userType |-> "staff"] }

\* fault: getBooking returning a cached booking without the access check
\* fault: a cache read that does not reach Redis answered as "no such booking"
getBooking_needsCache(bookingId, userId, userType, cacheGetOk, setexOk, c, bks) ==
  LET cached == IF cacheGetOk THEN c[bookingId] ELSE {} IN
  IF cached # {}
  THEN LET booking == TheOne(cached) IN
       IF \/ (userType = "patient" /\ booking.patient_id = userId)
          \/ (userType = "doctor" /\ booking.doctor_id = userId)
       THEN [ret |-> {booking}, cache |-> c]
       ELSE [ret |-> {}, cache |-> c]
  ELSE IF ~cacheGetOk \/ bookingId \notin DOMAIN bks THEN [ret |-> {}, cache |-> c]
  ELSE LET booking == bks[bookingId] IN
       IF userType = "patient" /\ booking.patient_id # userId THEN [ret |-> {}, cache |-> c]
       ELSE IF userType = "doctor" /\ booking.doctor_id # userId THEN [ret |-> {}, cache |-> c]
       ELSE [ret |-> {booking},
             cache |-> IF setexOk THEN [c EXCEPT ![bookingId] = {booking}] ELSE c]

getBooking_noCacheCheck(bookingId, userId, userType, cacheGetOk, setexOk, c, bks) ==
  LET cached == IF cacheGetOk THEN c[bookingId] ELSE {} IN
  IF cached # {} THEN [ret |-> cached, cache |-> c]
  ELSE IF bookingId \notin DOMAIN bks THEN [ret |-> {}, cache |-> c]
  ELSE LET booking == bks[bookingId] IN
       IF userType = "patient" /\ booking.patient_id # userId THEN [ret |-> {}, cache |-> c]
       ELSE IF userType = "doctor" /\ booking.doctor_id # userId THEN [ret |-> {}, cache |-> c]
       ELSE [ret |-> {booking},
             cache |-> IF setexOk THEN [c EXCEPT ![bookingId] = {booking}] ELSE c]

\* getBooking on the cache c and the committed rows bks.  cacheGetOk and setexOk
\* say whether CacheClient.get and CacheClient.setex reach Redis (get returns null
\* and setex returns false when they do not).  Result: the booking returned (a set,
\* empty for null) and the cache afterwards.
getBooking(bookingId, userId, userType, cacheGetOk, setexOk, c, bks) ==
  LET cached == IF cacheGetOk THEN c[bookingId] ELSE {} IN
  IF cached # {}
  THEN LET booking == TheOne(cached) IN
       IF \/ (userType = "patient" /\ booking.patient_id = userId)
          \/ (userType = "doctor" /\ booking.doctor_id = userId)
       THEN [ret |-> {booking}, cache |-> c]
       ELSE [ret |-> {}, cache |-> c]
  ELSE IF bookingId \notin DOMAIN bks THEN [ret |-> {}, cache |-> c]
  ELSE LET booking == bks[bookingId] IN
       IF userType = "patient" /\ booking.patient_id # userId THEN [ret |-> {}, cache |-> c]
       ELSE IF userType = "doctor" /\ booking.doctor_id # userId THEN [ret |-> {}, cache |-> c]
       ELSE [ret |-> {booking},
             cache |-> IF setexOk THEN [c EXCEPT ![bookingId] = {booking}] ELSE c]

getBooking_request ==
  /\ response.op = None
  /\ \E bookingId \in BookingIds, r \in Requesters, cacheGetOk \in BOOLEAN, setexOk \in BOOLEAN :
       LET got == getBooking(bookingId, r.userId, r.userType, cacheGetOk, setexOk,
                             cache, bookings)
       IN /\ cache' = got.cache
          /\ response' = Resp("getBooking", None, bookingId, NoInput, r.userId, r.userType,
                              got.ret)
  /\ UNCHANGED <<bookings, qr_codes, cancellation_fees, patient_insurance,
                 payment_intents, pc, local, tx, calls>>
  /\ UNCHANGED <<availVars, rateVars, policyVars, effectVars, bucketVars>>

\* the rows of seq from position offset + 1 on, at most limit of them
Page(seq, limit, offset) ==
  { seq[i] : i \in { j \in DOMAIN seq : j > offset /\ j <= offset + limit } }

\* ORDER BY appointment_time DESC of the rows S (ties in any order)
RECURSIVE OrderDesc(_)
OrderDesc(S) ==
  IF S = {} THEN <<>>
  ELSE LET first == CHOOSE x \in S : \A y \in S : x.appointment_time >= y.appointment_time
       IN <<first>> \o OrderDesc(S \ {first})

\* fault: listBookings filtering by user for the patient role only
listBookings_noProviderFilter(userId, userType, filters, bks) ==
  LET rows == { bks[b] : b \in DOMAIN bks }
      byUser == IF userType = "patient"
                THEN { r \in rows : r.patient_id = userId }
                ELSE rows
  IN Page(OrderDesc(byUser), 20, filters.offset)

\* the WHERE clause of listBookings: the rows both of its queries select from
listBookings_where(userId, userType, filters, bks) ==
  LET rows == { bks[b] : b \in DOMAIN bks }
      byUser == IF userType = "patient"
                THEN { r \in rows : r.patient_id = userId }
                ELSE { r \in rows : r.doctor_id = userId }
      byStatus == IF filters.status # None
                  THEN { r \in byUser : r.status = filters.status } ELSE byUser
      byStart == IF filters.startDate # NoTime
                 THEN { r \in byStatus : r.appointment_time >= filters.startDate }
                 ELSE byStatus
  IN IF filters.endDate # NoTime
     THEN { r \in byStart : r.appointment_time <= filters.endDate }
     ELSE byStart

\* listBookings: the page of rows returned
listBookings(userId, userType, filters, bks) ==
  LET limit == IF filters.limit # 0 THEN filters.limit ELSE 20
  IN Page(OrderDesc(listBookings_where(userId, userType, filters, bks)), limit,
          filters.offset)

ListFilters ==
  { [status |-> None, startDate |-> NoTime, endDate |-> NoTime, limit |-> 0, offset |-> 0],
    [status |-> "pending", startDate |-> T0930, endDate |-> T1030, limit |-> 1, offset |-> 1] }

listBookings_request ==
  /\ response.op = None
  /\ \E r \in Requesters, filters \in ListFilters :
       response' = Resp("listBookings", None, NoId, NoInput, r.userId, r.userType,
                        listBookings(r.userId, r.userType, filters, bookings))
  /\ UNCHANGED <<bookings, qr_codes, cancellation_fees, patient_insurance,
                 payment_intents, cache, pc, local, tx, calls>>
  /\ UNCHANGED <<availVars, rateVars, policyVars, effectVars, bucketVars>>

\* the TTL of a booking:<id> key (300 s) runs out
CacheExpire ==
  /\ response.op = None
  /\ \E b \in BookingIds :
       /\ cache[b] # {}
       /\ cache' = [cache EXCEPT ![b] = {}]
  /\ UNCHANGED <<bookings, qr_codes, cancellation_fees, patient_insurance,
                 payment_intents, pc, local, tx, response, calls>>
  /\ UNCHANGED <<availVars, rateVars, policyVars, effectVars, bucketVars>>

(***************************************************************************)
(* BookingService.updateBooking.                                            *)
(***************************************************************************)
\* updateBookingSchema.validate(input): appointmentTime converted as in
\* createBookingSchema; an absent appointmentTime is the empty set
updateBookingSchema(input) ==
  IF \A a \in input.appointmentTime : a.t > Now
  THEN [error |-> None,
        value |-> [input EXCEPT !.appointmentTime = { JoiDate(a) : a \in @ }]]
  ELSE [error |-> "Validation error", value |-> input]

\* validateUpdateBooking: the error thrown, or None.  The checks are awaited in turn.
validateUpdateBooking(bookingId, input, bks) ==
  LET v == updateBookingSchema(input) IN
  IF v.error # None THEN v.error
  ELSE IF bookingId \notin DOMAIN bks THEN "Booking not found"
  ELSE LET booking == bks[bookingId]
           slot == UNION { validateTimeSlot(booking.doctor_id, a.t, bookingId, bks) :
                           a \in v.value.appointmentTime }
           service == IF v.value.serviceTypeId # None
                      THEN validateServiceType(v.value.serviceTypeId, booking.doctor_id)
                      ELSE {}
       IN IF slot # {} THEN TheOne(slot)
          ELSE IF service # {} THEN TheOne(service)
          ELSE None

UpdateInputs ==
  { [appointmentTime |-> {StringTime(T0930)}, serviceTypeId |-> None],
    [appointmentTime |-> {}, serviceTypeId |-> "s2"] }

\* lines 286-298: validateUpdateBooking, getBooking (cache first), the status check
\* on the copy getBooking returned
updateBooking_start(p) ==
  /\ pc[p] = "idle" /\ response.op = None /\ calls < MaxCalls
  /\ \E bookingId \in BookingIds, input \in UpdateInputs, r \in Requesters,
        cacheGetOk \in BOOLEAN, setexOk \in BOOLEAN :
       LET verr == validateUpdateBooking(bookingId, input, bookings)
           got == getBooking(bookingId, r.userId, r.userType, cacheGetOk, setexOk,
                             cache, bookings)
           fail(e) == /\ response' = Resp("updateBooking", e, bookingId, NoInput,
                                          r.userId, r.userType, {})
                      /\ UNCHANGED <<pc, local, calls>>
       IN IF verr # None THEN fail(verr) /\ UNCHANGED cache
          ELSE /\ cache' = got.cache
               /\ IF got.ret = {} THEN fail("Booking not found or unauthorized")
                  ELSE IF TheOne(got.ret).status \notin {"pending", "confirmed"}
                       THEN fail("Cannot update booking with current status")
                  ELSE /\ pc' = [pc EXCEPT ![p] = "ub_update"]
                       /\ calls' = calls + 1
                       /\ local' = [local EXCEPT ![p] =
                                      [bookingId |-> bookingId,
                                       input |-> updateBookingSchema(input).value,
                                       userId |-> r.userId, userType |-> r.userType]]
                       /\ UNCHANGED response
  /\ UNCHANGED <<bookings, qr_codes, cancellation_fees, patient_insurance,
                 payment_intents, tx>>
  /\ UNCHANGED <<availVars, rateVars, policyVars, effectVars, bucketVars>>

\* fault: the UPDATE also setting total_amount and patient_payment_amount to the
\* price of the new service type
ApplyUpdate_reprices(row, input) ==
  LET timed == IF input.appointmentTime # {}
               THEN [row EXCEPT !.appointment_time = TheOne(input.appointmentTime).t]
               ELSE row
  IN IF input.serviceTypeId # None
     THEN [timed EXCEPT !.service_type_id = input.serviceTypeId,
                        !.total_amount = service_types[input.serviceTypeId].base_price,
                        !.patient_payment_amount =
                           service_types[input.serviceTypeId].base_price
                           - timed.insurance_covered_amount]
     ELSE timed

\* the UPDATE of lines 331-334 on the row as stored
ApplyUpdate(row, input) ==
  LET timed == IF input.appointmentTime # {}
               THEN [row EXCEPT !.appointment_time = TheOne(input.appointmentTime).t]
               ELSE row
  IN IF input.serviceTypeId # None
     THEN [timed EXCEPT !.service_type_id = input.serviceTypeId]
     ELSE timed

\* lines 300-355: UPDATE bookings ... WHERE id, the notification (not awaited), the
\* cache invalidation (a del that does not reach Redis leaves the entry)
updateBooking_update(p) ==
  /\ pc[p] = "ub_update" /\ response.op = None
  /\ LET id == local[p].bookingId
         updatedBooking == ApplyUpdate(bookings[id], local[p].input)
     IN /\ bookings' = [bookings EXCEPT ![id] = updatedBooking]
        \* a validated appointmentTime is a Date object, never === the stored value
        /\ \E delOk \in BOOLEAN :
             /\ cache' = IF delOk THEN [cache EXCEPT ![id] = {}] ELSE cache
             /\ Did(p, (IF local[p].input.appointmentTime # {}
                        THEN <<SendNotification>> ELSE <<>>)
                       \o <<IF delOk THEN CacheDel ELSE CacheDelFailed>>)
        /\ Finish(p, Resp("updateBooking", None, id, NoInput, local[p].userId,
                          local[p].userType, {updatedBooking}))
  /\ UNCHANGED <<qr_codes, cancellation_fees, patient_insurance, payment_intents, calls>>
  /\ UNCHANGED <<availVars, rateVars, policyVars, bucketVars>>

(***************************************************************************)
(* BookingService.cancelBooking.                                            *)
(***************************************************************************)
CancelResult(error, requiresPenalty, penaltyPercentage) ==
  [error |-> error, canCancel |-> error = None, requiresPenalty |-> requiresPenalty,
   penaltyPercentage |-> penaltyPercentage]

\* fault: validateCancellation without its status check
validateCancellation_noStatusCheck(bookingId, userId, userType, bks) ==
  IF bookingId \notin DOMAIN bks THEN CancelResult("Booking not found", FALSE, 0)
  ELSE
  LET booking == bks[bookingId] IN
  IF userType = "patient" /\ booking.patient_id # userId
  THEN CancelResult("Unauthorized to cancel this booking", FALSE, 0)
  ELSE IF userType = "doctor" /\ booking.doctor_id # userId
  THEN CancelResult("Unauthorized to cancel this booking", FALSE, 0)
  ELSE CancelResult(None, FALSE, 0)

\* validateCancellation on the committed rows bks, with records the rows of
\* cancellation_policies in the order the database lists them (the query has no
\* ORDER BY): error is the message thrown, or None
validateCancellationOn(bookingId, userId, userType, bks, records) ==
  IF bookingId \notin DOMAIN bks THEN CancelResult("Booking not found", FALSE, 0)
  ELSE
  LET booking == bks[bookingId] IN
  IF userType = "patient" /\ booking.patient_id # userId
  THEN CancelResult("Unauthorized to cancel this booking", FALSE, 0)
  ELSE IF userType = "doctor" /\ booking.doctor_id # userId
  THEN CancelResult("Unauthorized to cancel this booking", FALSE, 0)
  ELSE IF booking.status \notin {"pending", "confirmed"}
  THEN CancelResult("Cannot cancel booking with status: " \o booking.status, FALSE, 0)
  ELSE
  LET minutesUntilAppointment == booking.appointment_time - Now
      policyResult == SelectSeq(records,
                                LAMBDA cp : /\ booking.doctor_id \in DOMAIN doctors
                                            /\ cp.clinic_id = doctors[booking.doctor_id].clinic_id
                                            /\ cp.is_active)
  IN IF /\ policyResult # <<>>
        /\ minutesUntilAppointment < policyResult[1].minimum_hours_notice * 60
     THEN CancelResult(None, TRUE,
                       IF policyResult[1].penalty_percentage # 0
                       THEN policyResult[1].penalty_percentage ELSE 0)
     ELSE CancelResult(None, FALSE, 0)

\* validateCancellation as cancelBooking calls it, on the table policy_rows
validateCancellation(bookingId, userId, userType, bks) ==
  validateCancellationOn(bookingId, userId, userType, bks,
                         CHOOSE records \in Orderings(policy_rows) : TRUE)

\* the reason every modelled cancellation gives
Reason == "reason"

\* lines 365-401: validateCancellation, beginTransaction, the UPDATE and the
\* cancellation_fees INSERT of the transaction
cancelBooking_start(p) ==
  /\ pc[p] = "idle" /\ response.op = None /\ calls < MaxCalls
  /\ \E bookingId \in BookingIds, r \in Requesters :
       LET validationResult == validateCancellation(bookingId, r.userId, r.userType, bookings)
       IN IF validationResult.error # None
          THEN /\ response' = Resp("cancelBooking", validationResult.error, bookingId, NoInput,
                                   r.userId, r.userType, {})
               /\ UNCHANGED <<pc, local, tx, calls>>
          ELSE LET booking == bookings[bookingId]
                   penaltyAmount == (booking.patient_payment_amount
                                     * validationResult.penaltyPercentage) \div 100
                   updated == [NoTx EXCEPT !.cancel =
                                 {[reason |-> Reason, at |-> Now, by |-> r.userId]}]
                   withFee == IF /\ validationResult.requiresPenalty
                                 /\ validationResult.penaltyPercentage > 0
                              THEN [updated EXCEPT !.fee =
                                      {[booking_id |-> bookingId, amount |-> penaltyAmount,
                                        percentage |-> validationResult.penaltyPercentage]}]
                              ELSE updated
               IN /\ tx' = [tx EXCEPT ![p] = withFee]
                  /\ pc' = [pc EXCEPT ![p] = "cx_commit"]
                  /\ calls' = calls + 1
                  /\ local' = [local EXCEPT ![p] =
                                 [bookingId |-> bookingId, input |-> NoInput,
                                  userId |-> r.userId, userType |-> r.userType]]
                  /\ UNCHANGED response
  /\ UNCHANGED <<bookings, qr_codes, cancellation_fees, patient_insurance,
                 payment_intents, cache>>
  /\ UNCHANGED <<availVars, rateVars, policyVars, effectVars, bucketVars>>

\* lines 403-426: commitTransaction, the notification (not awaited), the cache
\* invalidation; a failing statement or commit goes to the catch block
cancelBooking_commit(p) ==
  /\ pc[p] = "cx_commit" /\ response.op = None
  /\ LET id == local[p].bookingId
         committed == commitBookings(tx[p], id, bookings)
     IN \/ /\ bookings' = committed
           /\ cancellation_fees' = commitFees(tx[p], cancellation_fees)
           /\ \E delOk \in BOOLEAN :
                /\ cache' = IF delOk THEN [cache EXCEPT ![id] = {}] ELSE cache
                /\ Did(p, <<CommitTransaction, SendNotification,
                            IF delOk THEN CacheDel ELSE CacheDelFailed>>)
           /\ Finish(p, Resp("cancelBooking", None, id, NoInput, local[p].userId,
                             local[p].userType, {committed[id]}))
        \/ /\ UNCHANGED <<bookings, cancellation_fees, cache>>
           /\ Did(p, <<RollbackTransaction>>)
           /\ Finish(p, Resp("cancelBooking", TransientInfraError, id, NoInput,
                             local[p].userId, local[p].userType, {}))
  /\ UNCHANGED <<qr_codes, patient_insurance, payment_intents, calls>>
  /\ UNCHANGED <<availVars, rateVars, policyVars, bucketVars>>

(***************************************************************************)
(* PaymentService: the operations that write the bookings table.            *)
(***************************************************************************)
\* statuses stripe.paymentIntents.confirm may report
StripeStatuses == {"succeeded", "requires_action"}

\* createPaymentIntent: the booking must exist; a payment_intents row is stored
createPaymentIntent ==
  /\ response.op = None
  /\ \E bookingId \in BookingIds :
       IF bookingId \notin DOMAIN bookings
       THEN /\ response' = Resp("createPaymentIntent", "Booking not found", bookingId,
                                NoInput, None, None, {})
            /\ UNCHANGED payment_intents
       ELSE /\ Cardinality(payment_intents) < MaxIntents
            /\ payment_intents' = payment_intents \cup
                 {[id |-> Cardinality(payment_intents) + 1, booking_id |-> bookingId,
                   status |-> "pending"]}
            /\ UNCHANGED response
  /\ UNCHANGED <<bookings, qr_codes, cancellation_fees, patient_insurance, cache,
                 pc, local, tx, calls>>
  /\ UNCHANGED <<availVars, rateVars, policyVars, effectVars, bucketVars>>

\* UPDATE bookings SET payment_status = 'paid', status = 'confirmed' WHERE id
MarkPaid(bks, bookingId) ==
  IF bookingId \in DOMAIN bks
  THEN [bks EXCEPT ![bookingId] = [@ EXCEPT !.status = "confirmed"]]
  ELSE bks

\* confirmPayment of a stored intent Stripe has not yet seen succeed
confirmPayment ==
  /\ response.op = None
  /\ \E paymentIntent \in payment_intents, stripeStatus \in StripeStatuses :
       /\ paymentIntent.status # "succeeded"
       /\ payment_intents' = (payment_intents \ {paymentIntent})
                             \cup {[paymentIntent EXCEPT !.status = stripeStatus]}
       /\ bookings' = IF stripeStatus = "succeeded"
                      THEN MarkPaid(bookings, paymentIntent.booking_id)
                      ELSE bookings
  /\ UNCHANGED <<qr_codes, cancellation_fees, patient_insurance, cache, pc, local, tx,
                 response, calls>>
  /\ UNCHANGED <<availVars, rateVars, policyVars, effectVars, bucketVars>>

\* the payment_intent.succeeded webhook of an intent, delivered once
handlePaymentSuccess ==
  /\ response.op = None
  /\ \E paymentIntent \in payment_intents :
       /\ paymentIntent.status # "succeeded"
       /\ payment_intents' = (payment_intents \ {paymentIntent})
                             \cup {[paymentIntent EXCEPT !.status = "succeeded"]}
       /\ bookings' = MarkPaid(bookings, paymentIntent.booking_id)
  /\ UNCHANGED <<qr_codes, cancellation_fees, patient_insurance, cache, pc, local, tx,
                 response, calls>>
  /\ UNCHANGED <<availVars, rateVars, policyVars, effectVars, bucketVars>>

(***************************************************************************)
(* DoctorAvailabilityService.                                               *)
(* Dates are day numbers and times of day are minutes since midnight, all   *)
(* in the service's one timezone.  The reads of one getDoctorAvailability   *)
(* call are taken at one instant.                                           *)
(***************************************************************************)
\* getDoctorSchedules: the active rows of the doctor and weekday, for the service
\* type when one is given, in an order that ORDER BY start_time allows
getDoctorSchedules(doctorId, dayOfWeek, serviceTypeId, rows) ==
  LET records == { ds \in rows :
                     /\ ds.doctor_id = doctorId
                     /\ ds.day_of_week = dayOfWeek
                     /\ ds.is_active
                     /\ (serviceTypeId # None => ds.service_type_id \in {serviceTypeId, None}) }
  IN { seq \in Orderings(records) :
         \A i, j \in DOMAIN seq : i < j => seq[i].start_time <= seq[j].start_time }

\* getBookingsForDate: the pending and confirmed bookings of the doctor on the date
getBookingsForDate(doctorId, date, bks) ==
  { bks[b] : b \in { x \in DOMAIN bks :
                       /\ bks[x].doctor_id = doctorId
                       /\ DateOf(bks[x].appointment_time) = date
                       /\ bks[x].status \in {"pending", "confirmed"} } }

\* fault: the loop test written currentSlot.isSameOrBefore(endTime)
SlotCount_inclusive(schedule) ==
  IF schedule.end_time >= schedule.start_time
  THEN (schedule.end_time - schedule.start_time) \div schedule.slot_duration_minutes + 1
  ELSE 0

\* the number of turns of the while loop of one schedule (slot duration positive)
SlotCount(schedule) ==
  IF schedule.end_time > schedule.start_time
  THEN (schedule.end_time - schedule.start_time + schedule.slot_duration_minutes - 1)
         \div schedule.slot_duration_minutes
  ELSE 0

\* the slots one schedule pushes, in the order of the loop
SlotsOf(schedule, bookedTimes, date) ==
  LET isToday == date = Today
      slot(time) ==
        LET free == time \notin bookedTimes
            slotDateTime == date * MinutesPerDay + time
        IN [time |-> time,
            available |-> IF isToday /\ free THEN slotDateTime > Now + 60 ELSE free,
            doctorId |-> schedule.doctor_id,
            serviceTypeId |-> schedule.service_type_id]
  IN [k \in 1..SlotCount(schedule) |->
        slot(schedule.start_time + (k - 1) * schedule.slot_duration_minutes)]

RECURSIVE PushSlots(_, _, _)
PushSlots(schedules, bookedTimes, date) ==
  IF schedules = <<>> THEN <<>>
  ELSE SlotsOf(Head(schedules), bookedTimes, date)
       \o PushSlots(Tail(schedules), bookedTimes, date)

\* fault: the slots returned in the order the loops pushed them
SortByTime_unsorted(timeSlots) == timeSlots

\* timeSlots.sort by time: Array.prototype.sort is stable
RECURSIVE SortByTime(_)
SortByTime(timeSlots) ==
  IF timeSlots = <<>> THEN <<>>
  ELSE LET first == MinOf({ timeSlots[i].time : i \in DOMAIN timeSlots })
       IN SelectSeq(timeSlots, LAMBDA x : x.time = first)
          \o SortByTime(SelectSeq(timeSlots, LAMBDA x : x.time # first))

\* generateTimeSlots(schedules, bookings, date)
generateTimeSlots(schedules, bks, date) ==
  LET bookedTimes == { toTimeString(b.appointment_time) : b \in bks }
  IN SortByTime(PushSlots(schedules, bookedTimes, date))

DoctorAvailability(doctorId, date, timeSlots) ==
  [doctorId |-> doctorId, date |-> date, timeSlots |-> timeSlots]

\* fault: generateTimeSlots never marking a slot booked
getDoctorAvailability_ignoresBookings(doctorId, date, serviceTypeId, cacheGetOk, setOk, schedules, c, bks) ==
  LET cacheKey == AvailabilityKey(doctorId, date,
                                  IF serviceTypeId # None THEN serviceTypeId ELSE "all")
      cached == IF cacheGetOk /\ cacheKey \in DOMAIN c THEN c[cacheKey] ELSE {}
  IN IF cached # {} THEN [ret |-> cached, cache |-> c, fromCache |-> TRUE]
     ELSE LET a == DoctorAvailability(doctorId, date, generateTimeSlots(schedules, {}, date))
          IN [ret |-> {a}, fromCache |-> FALSE,
              cache |-> IF setOk /\ schedules # <<>> THEN [c EXCEPT ![cacheKey] = {a}] ELSE c]

\* getDoctorAvailability on the cache c and the committed rows bks, with schedules
\* the result of its getDoctorSchedules query.  cacheGetOk and setOk say whether
\* CacheClient.get and CacheClient.set reach Redis.  Result: the availability
\* returned, the cache afterwards, and whether the answer came from the cache.
getDoctorAvailability(doctorId, date, serviceTypeId, cacheGetOk, setOk, schedules, c, bks) ==
  LET cacheKey == AvailabilityKey(doctorId, date,
                                  IF serviceTypeId # None THEN serviceTypeId ELSE "all")
      cached == IF cacheGetOk /\ cacheKey \in DOMAIN c THEN c[cacheKey] ELSE {}
  IN IF cached # {} THEN [ret |-> cached, cache |-> c, fromCache |-> TRUE]
     ELSE IF schedules = <<>>
     THEN [ret |-> {DoctorAvailability(doctorId, date, <<>>)}, cache |-> c,
           fromCache |-> FALSE]
     ELSE LET a == DoctorAvailability(doctorId, date,
                     generateTimeSlots(schedules, getBookingsForDate(doctorId, date, bks),
                                       date))
          IN [ret |-> {a}, fromCache |-> FALSE,
              cache |-> IF setOk THEN [c EXCEPT ![cacheKey] = {a}] ELSE c]

\* the service-type filters of the modelled requests (None: no filter)
ServiceFilters == {None, "s1"}

getDoctorAvailability_request ==
  /\ response.op = None
  /\ \E serviceTypeId \in ServiceFilters, cacheGetOk \in BOOLEAN, setOk \in BOOLEAN :
     \E schedules \in getDoctorSchedules("d1", Today % 7, serviceTypeId, schedule_rows) :
       LET got == getDoctorAvailability("d1", Today, serviceTypeId, cacheGetOk, setOk,
                                        schedules, availability, bookings)
       IN /\ availability' = got.cache
          /\ response' = Resp("getDoctorAvailability", None, NoId,
                              [doctorId |-> "d1", date |-> Today,
                               serviceTypeId |-> serviceTypeId,
                               fromCache |-> got.fromCache],
                              None, None, got.ret)
  /\ UNCHANGED <<bookingVars, schedule_rows, blocked_slots, rateVars, policyVars, effectVars, bucketVars>>

\* the TTL of an availability key (300 s) runs out
AvailabilityExpire ==
  /\ response.op = None
  /\ \E k \in AvailabilityKeys :
       /\ availability[k] # {}
       /\ availability' = [availability EXCEPT ![k] = {}]
  /\ UNCHANGED <<bookingVars, response, schedule_rows, blocked_slots, rateVars, policyVars, effectVars, bucketVars>>

\* the (date, time) pairs the modelled blockTimeSlots and unblockTimeSlots calls name
BlockTimes == {T0930}

\* blockTimeSlots(doctorId, [date], [time]): one row per date and time; the cache
\* is not cleared (lines 419-423 build a key and do nothing with it)
blockTimeSlots ==
  /\ response.op = None
  /\ \E appointmentTime \in BlockTimes :
       /\ [doctor_id |-> "d1", blocked_time |-> appointmentTime] \notin blocked_slots
       /\ blocked_slots' = blocked_slots
                           \cup {[doctor_id |-> "d1", blocked_time |-> appointmentTime]}
  /\ UNCHANGED <<bookingVars, response, schedule_rows, availability, rateVars, policyVars, effectVars, bucketVars>>

\* unblockTimeSlots(doctorId, [date], [time]): DELETE of the row
unblockTimeSlots ==
  /\ response.op = None
  /\ \E appointmentTime \in BlockTimes :
       /\ [doctor_id |-> "d1", blocked_time |-> appointmentTime] \in blocked_slots
       /\ blocked_slots' = blocked_slots
                           \ {[doctor_id |-> "d1", blocked_time |-> appointmentTime]}
  /\ UNCHANGED <<bookingVars, response, schedule_rows, availability, rateVars, policyVars, effectVars, bucketVars>>

\* the schedule list the modelled updateDoctorSchedule calls of worker w1 supply for
\* d1, and the list those of another worker supply
ScheduleInputs ==
  { {[dayOfWeek |-> 1, startTime |-> 10 * 60, endTime |-> 12 * 60,
      slotDurationMinutes |-> 30, serviceTypeId |-> "s1"]} }
ScheduleInputsOf(p) ==
  IF p = "w1" THEN ScheduleInputs
  ELSE { {[dayOfWeek |-> 1, startTime |-> 14 * 60, endTime |-> 15 * 60,
           slotDurationMinutes |-> 30, serviceTypeId |-> "s1"]} }

\* the rows the INSERTs of updateDoctorSchedule add
InsertedSchedules(doctorId, schedules) ==
  { [doctor_id |-> doctorId, day_of_week |-> sc.dayOfWeek,
     start_time |-> sc.startTime, end_time |-> sc.endTime,
     slot_duration_minutes |-> sc.slotDurationMinutes,
     service_type_id |-> sc.serviceTypeId, is_active |-> TRUE] : sc \in schedules }

\* the doctor_schedules table after the UPDATE and the INSERTs of
\* updateDoctorSchedule have committed.  The UPDATE touches the rows of the doctor
\* that were committed when the statement started (seen): under READ COMMITTED a row
\* that another transaction inserted and committed since then is not among them.
ReplaceSchedules(rows, doctorId, schedules, seen) ==
  { IF ds.doctor_id = doctorId /\ [ds EXCEPT !.is_active = TRUE] \in seen
    THEN [ds EXCEPT !.is_active = FALSE] ELSE ds : ds \in rows }
  \cup InsertedSchedules(doctorId, schedules)

\* updateDoctorSchedule(doctorId, schedules), lines 344-375: beginTransaction, the
\* UPDATE, the INSERTs.  The UPDATE locks the rows of the doctor: when another call
\* holds them (started) it waits for that call to end, having taken its view of the
\* table when it started.  Each modelled call supplies windows no stored row has.
updateDoctorSchedule_from(p, inputs) ==
  /\ pc[p] = "idle" /\ response.op = None
  /\ \E schedules \in inputs :
       /\ \A row \in InsertedSchedules("d1", schedules) :
            /\ row \notin schedule_rows
            /\ [row EXCEPT !.is_active = FALSE] \notin schedule_rows
       /\ tx' = [tx EXCEPT ![p] =
                   [NoTx EXCEPT !.schedule =
                      {[schedules |-> schedules,
                        seen |-> { [ds EXCEPT !.is_active = TRUE] :
                                     ds \in { r \in schedule_rows : r.doctor_id = "d1" } },
                        started |-> { q \in Procs : pc[q] = "us_commit" }]}]]
       /\ pc' = [pc EXCEPT ![p] = "us_commit"]
  /\ UNCHANGED <<bookings, qr_codes, cancellation_fees, patient_insurance, payment_intents,
                 cache, local, calls, response>>
  /\ UNCHANGED <<availVars, rateVars, policyVars, effectVars, bucketVars>>

updateDoctorSchedule_start(p) == updateDoctorSchedule_from(p, ScheduleInputsOf(p))

\* lines 377-388: commitTransaction; a failing statement or commit goes to the catch
\* block, which rolls back and rethrows.  The availability cache is left as it is.
updateDoctorSchedule_commit(p) ==
  /\ pc[p] = "us_commit" /\ response.op = None
  /\ LET update == TheOne(tx[p].schedule)
     IN /\ \A q \in update.started :
             ~(pc[q] = "us_commit" /\ p \notin TheOne(tx[q].schedule).started)
        /\ \/ /\ schedule_rows' = ReplaceSchedules(schedule_rows, "d1", update.schedules,
                                                    update.seen)
              /\ Did(p, <<CommitTransaction>>)
              /\ Finish(p, Resp("updateDoctorSchedule", None, NoId,
                                [doctorId |-> "d1", schedules |-> update.schedules],
                                None, None, {}))
           \/ /\ UNCHANGED schedule_rows
              /\ Did(p, <<RollbackTransaction>>)
              /\ Finish(p, Resp("updateDoctorSchedule", TransientInfraError, NoId,
                                [doctorId |-> "d1", schedules |-> update.schedules],
                                None, None, {}))
  /\ UNCHANGED <<bookings, qr_codes, cancellation_fees, patient_insurance, payment_intents,
                 cache, calls>>
  /\ UNCHANGED <<blocked_slots, availability, rateVars, policyVars, bucketVars>>

(***************************************************************************)
(* RateLimiter, for one identifier on the endpoint POST /payments.          *)
(* A rate-limit key is identified by its window start.  The DynamoDB ttl    *)
(* attribute removes an item only after its window has ended, when no       *)
(* request reads it any more.                                               *)
(***************************************************************************)
Ceil(a, b) == (a + b - 1) \div b
\* Math.floor(now / config.windowMs) * config.windowMs
Window(now) == (now \div windowMs) * windowMs

\* fault: a counter that stops at the first count over the limit
checkCache_capped(key, now, cacheOk, expireOk, rc) ==
  IF ~cacheOk THEN [count |-> {}, cache |-> rc]
  ELSE LET count == IF rc[key].count > maxRequests THEN rc[key].count
                    ELSE rc[key].count + 1
           afterIncr == [rc EXCEPT ![key].count = count]
       IN [count |-> {count},
           cache |-> IF count = 1 /\ expireOk
                     THEN [afterIncr EXCEPT ![key].expireAt =
                             now + Ceil(windowMs, 1000) * 1000]
                     ELSE afterIncr]

\* checkCache(key, windowMs): cache.incr, which returns null when Redis is not
\* reached, and cache.expire on the first count, which returns false then
checkCache(key, now, cacheOk, expireOk, rc) ==
  IF ~cacheOk THEN [count |-> {}, cache |-> rc]
  ELSE LET count == rc[key].count + 1
           afterIncr == [rc EXCEPT ![key].count = count]
       IN [count |-> {count},
           cache |-> IF count = 1 /\ expireOk
                     THEN [afterIncr EXCEPT ![key].expireAt =
                             now + Ceil(windowMs, 1000) * 1000]
                     ELSE afterIncr]

\* checkDynamoDB(key, window, windowMs): ADD count 1, ALL_NEW; an empty count
\* stands for the rethrown error
checkDynamoDB(key, dynamoOk, rd) ==
  IF ~dynamoOk THEN [count |-> {}, table |-> rd]
  ELSE [count |-> {IF rd[key] + 1 # 0 THEN rd[key] + 1 ELSE 1},
        table |-> [rd EXCEPT ![key] = @ + 1]]

\* lines 586-600: the 429 response, or null (the empty set)
Decide(count, now) ==
  IF count > maxRequests
  THEN {[statusCode |-> 429,
         retryAfter |-> Ceil(Window(now) + windowMs - now, 1000)]}
  ELSE {}

\* fault: the catch block of checkRateLimit answering 429 in place of null
checkRateLimit_failClosed(now, cacheOk, expireOk, dynamoOk, rc, rd) ==
  LET fromCache == checkCache(Window(now), now, cacheOk, expireOk, rc)
      fromDynamo == checkDynamoDB(Window(now), dynamoOk, rd)
  IN IF fromCache.count # {}
     THEN [result |-> Decide(TheOne(fromCache.count), now),
           cache |-> fromCache.cache, table |-> rd]
     ELSE IF fromDynamo.count # {}
     THEN [result |-> Decide(TheOne(fromDynamo.count), now),
           cache |-> fromCache.cache, table |-> fromDynamo.table]
     ELSE [result |-> Decide(maxRequests + 1, now), cache |-> rc, table |-> rd]

\* checkRateLimit at time now on the Redis counters rc and the DynamoDB items rd:
\* the response (empty: request allowed) and the two stores afterwards
checkRateLimit(now, cacheOk, expireOk, dynamoOk, rc, rd) ==
  LET fromCache == checkCache(Window(now), now, cacheOk, expireOk, rc)
      fromDynamo == checkDynamoDB(Window(now), dynamoOk, rd)
  IN IF fromCache.count # {}
     THEN [result |-> Decide(TheOne(fromCache.count), now),
           cache |-> fromCache.cache, table |-> rd]
     ELSE IF fromDynamo.count # {}
     THEN [result |-> Decide(TheOne(fromDynamo.count), now),
           cache |-> fromCache.cache, table |-> fromDynamo.table]
     ELSE [result |-> {}, cache |-> rc, table |-> rd]

RECURSIVE SumOver(_, _)
SumOver(f, S) ==
  IF S = {} THEN 0
  ELSE LET x == CHOOSE y \in S : TRUE IN f[x].requests + SumOver(f, S \ {x})
SentInAll(s) == SumOver(s, DOMAIN s)

\* one request of the identifier; sent counts the requests of each window and
\* those of them that reached a counter store
checkRateLimit_request ==
  /\ response.op = None
  /\ SentInAll(sent) < MaxSent
  /\ \E cacheOk \in BOOLEAN, expireOk \in BOOLEAN, dynamoOk \in BOOLEAN :
       LET got == checkRateLimit(clock, cacheOk, expireOk, dynamoOk, rate_cache, rate_dynamo)
           reached == cacheOk \/ dynamoOk
           counted == [sent EXCEPT ![Window(clock)] =
                         [requests |-> @.requests + 1,
                          reached |-> IF reached THEN @.reached + 1 ELSE @.reached]]
       IN /\ rate_cache' = got.cache
          /\ rate_dynamo' = got.table
          /\ sent' = counted
          /\ response' = Resp("checkRateLimit", None, NoId,
                              [now |-> clock, cacheOk |-> cacheOk, dynamoOk |-> dynamoOk,
                               nth |-> counted[Window(clock)].reached,
                               before |-> sent[Window(clock)].requests],
                              None, None, got.result)
  /\ UNCHANGED <<bookingVars, availVars, clock, policyVars, effectVars, bucketVars>>

\* time passes
Tick ==
  /\ response.op = None
  /\ clock + TickMs < MaxWindows * windowMs
  /\ clock' = clock + TickMs
  /\ UNCHANGED <<bookingVars, response, availVars, rate_cache, rate_dynamo, sent, policyVars, effectVars, bucketVars>>

\* Redis removes a rate-limit key whose TTL has run out
RateKeyExpire ==
  /\ response.op = None
  /\ \E w \in Windows :
       /\ rate_cache[w].count > 0
       /\ rate_cache[w].expireAt > 0
       /\ clock >= rate_cache[w].expireAt
       /\ rate_cache' = [rate_cache EXCEPT ![w] = NoCounter]
  /\ UNCHANGED <<bookingVars, response, availVars, clock, rate_dynamo, sent, policyVars, effectVars, bucketVars>>

(***************************************************************************)
(* Environment.                                                             *)
(***************************************************************************)
\* a patient_insurance row is removed
RemoveInsurance ==
  /\ response.op = None
  /\ \E i \in patient_insurance : patient_insurance' = patient_insurance \ {i}
  /\ UNCHANGED <<bookings, qr_codes, cancellation_fees, payment_intents, cache,
                 pc, local, tx, response, calls>>
  /\ UNCHANGED <<availVars, rateVars, policyVars, effectVars, bucketVars>>

\* the handler hands the result (or the error) to its caller; the record of the
\* calls an ended call made is dropped
Return ==
  /\ response.op # None
  /\ response' = NoResp
  /\ effects' = [p \in Procs |-> IF pc[p] = "idle" THEN <<>> ELSE effects[p]]
  /\ UNCHANGED <<bookings, qr_codes, cancellation_fees, patient_insurance,
                 payment_intents, cache, pc, local, tx, calls>>
  /\ UNCHANGED <<availVars, rateVars, policyVars, bucketVars>>

Next ==
  \/ \E p \in Procs : createBooking_validate(p)
  \/ \E p \in Procs : createBooking_tx(p)
  \/ \E p \in Procs : createBooking_commit(p)
  \/ getBooking_request
  \/ listBookings_request
  \/ CacheExpire
  \/ \E p \in Procs : updateBooking_start(p)
  \/ \E p \in Procs : updateBooking_update(p)
  \/ \E p \in Procs : cancelBooking_start(p)
  \/ \E p \in Procs : cancelBooking_commit(p)
  \/ createPaymentIntent
  \/ confirmPayment
  \/ handlePaymentSuccess
  \/ RemoveInsurance
  \/ Return

Spec == Init /\ [][Next]_vars

\* the availability service next to the booking service, with one request worker
NextAvailability ==
  \/ createBooking_validate("w1")
  \/ createBooking_tx("w1")
  \/ createBooking_commit("w1")
  \/ updateBooking_start("w1")
  \/ updateBooking_update("w1")
  \/ getDoctorAvailability_request
  \/ AvailabilityExpire
  \/ blockTimeSlots
  \/ unblockTimeSlots
  \/ updateDoctorSchedule_start("w1")
  \/ updateDoctorSchedule_commit("w1")
  \/ Return

SpecAvailability == Init /\ [][NextAvailability]_vars

\* the rate limiter
NextRateLimit ==
  \/ checkRateLimit_request
  \/ Tick
  \/ RateKeyExpire
  \/ Return

SpecRateLimit == Init /\ [][NextRateLimit]_vars

(***************************************************************************)
(* BookingValidator on its own: validateCancellation and                    *)
(* validateCreateBooking applied to a stored booking, a cancellation_policies *)
(* table and request inputs drawn from the sets below.                      *)
(***************************************************************************)
\* the two policies scripts/seed-data.js inserts for one clinic
SeededPolicies ==
  { [clinic_id |-> "c1", is_active |-> TRUE, minimum_hours_notice |-> 24,
     penalty_percentage |-> 50],
    [clinic_id |-> "c1", is_active |-> TRUE, minimum_hours_notice |-> 0,
     penalty_percentage |-> 100] }
PolicyTables == SUBSET (cancellation_policies \cup SeededPolicies)

\* the bookings table after one createBooking
BookingTables ==
  { (1 :> NewBookingRow(1, createBookingSchema(input).value, {"i1"})) :
      input \in { i \in CreateInputs :
                    validateCreateBooking(i, <<>>, {"i1"}) = {} } }

WeekMinutes == 7 * MinutesPerDay
\* appointment times around the two ends of the booking window
WindowTimes ==
  { Now - 1, Now + 30, At(1, 9, 0), Now + 59, Now + 60, Now + 61, T0930, T1030, T1300,
    T0930 + 12 * WeekMinutes, maxBookingDate, T0930 + 13 * WeekMinutes }
WindowInputs ==
  { [patientId |-> patientId, doctorId |-> "d1", serviceTypeId |-> "s1",
     appointmentTime |-> StringTime(t), insuranceId |-> None] :
      patientId \in {"p1", "p0"}, t \in WindowTimes }

InitValidator ==
  /\ qr_codes = {1}
  /\ cancellation_fees = EmptyBag
  /\ patient_insurance = {"i1"}
  /\ payment_intents = {}
  /\ cache = [b \in BookingIds |-> {}]
  /\ pc = [p \in Procs |-> "idle"]
  /\ local = [p \in Procs |-> NoLocal]
  /\ tx = [p \in Procs |-> NoTx]
  /\ response = NoResp
  /\ calls = 1
  /\ schedule_rows = doctor_schedules
  /\ blocked_slots = {}
  /\ availability = [k \in AvailabilityKeys |-> {}]
  /\ clock = 0
  /\ rate_cache = [w \in Windows |-> NoCounter]
  /\ rate_dynamo = [w \in Windows |-> 0]
  /\ sent = [w \in Windows |-> NoSent]
  /\ policy_rows \in PolicyTables
  /\ effects = [p \in Procs |-> <<>>]
  /\ bucket = TokenBucket(1, 1, 0)
  /\ bookings \in BookingTables

validateCancellation_request ==
  /\ response.op = None
  /\ \E bookingId \in BookingIds, r \in Requesters, records \in Orderings(policy_rows) :
       LET result == validateCancellationOn(bookingId, r.userId, r.userType, bookings,
                                            records)
       IN response' = Resp("validateCancellation", result.error, bookingId, NoInput,
                           r.userId, r.userType, {result})
  /\ UNCHANGED <<bookingVars, availVars, rateVars, policyVars, effectVars, bucketVars>>

validateCreateBooking_request ==
  /\ response.op = None
  /\ \E input \in WindowInputs :
       LET errs == validateCreateBooking(input, bookings, patient_insurance)
       IN \E e \in (IF errs = {} THEN {None} ELSE errs) :
            response' = Resp("validateCreateBooking", e, NoId, input, None, None, {})
  /\ UNCHANGED <<bookingVars, availVars, rateVars, policyVars, effectVars, bucketVars>>

NextValidator ==
  \/ validateCancellation_request
  \/ validateCreateBooking_request
  \/ Return

SpecValidator == InitValidator /\ [][NextValidator]_vars

(***************************************************************************)
(* Properties.                                                              *)
(***************************************************************************)
\* a committed pending or confirmed booking holds the slot (doctorId, t)
SlotTaken(doctorId, t) ==
  \E b \in DOMAIN bookings :
    /\ bookings[b].doctor_id = doctorId
    /\ bookings[b].appointment_time = t
    /\ bookings[b].status \in NonTerminal

\* C1: storage never holds two pending or confirmed bookings with the same
\* doctor_id and the same appointment_time, whatever the interleaving of
\* createBooking and rescheduling updateBooking calls.
NoDoubleBooking ==
  \A a, b \in DOMAIN bookings :
    (/\ a # b
     /\ bookings[a].status \in NonTerminal /\ bookings[b].status \in NonTerminal
     /\ bookings[a].doctor_id = bookings[b].doctor_id)
    => bookings[a].appointment_time # bookings[b].appointment_time

ConflictError == "This time slot is already booked"

\* this step is createBooking(input) being rejected by validateCreateBooking
CreateRejected ==
  /\ response.op = None /\ response'.op = "createBooking" /\ pc' = pc

\* C2 (as stated): a createBooking that starts while a committed pending or
\* confirmed booking holds the same doctor and time fails with the conflict error
\* and inserts no booking row.
LaterCreateGetsConflictError ==
  [][/\ \A p \in Procs :
          (pc[p] = "idle" /\ pc'[p] = "cb_tx")
          => ~SlotTaken(local'[p].input.doctorId, local'[p].input.appointmentTime.t)
     /\ (CreateRejected
         /\ SlotTaken(response'.input.doctorId, response'.input.appointmentTime.t))
        => (response'.error = ConflictError /\ bookings' = bookings)]_vars

\* C2 (amended): such a createBooking always fails and inserts no booking row; the
\* error is the conflict error whenever no other check of validateCreateBooking
\* rejects the request (a request that another check rejects as well fails with
\* either error).
LaterCreateRejected ==
  [][/\ \A p \in Procs :
          (pc[p] = "idle" /\ pc'[p] = "cb_tx")
          => ~SlotTaken(local'[p].input.doctorId, local'[p].input.appointmentTime.t)
     /\ (CreateRejected
         /\ SlotTaken(response'.input.doctorId, response'.input.appointmentTime.t))
        => /\ response'.error # None
           /\ bookings' = bookings
           /\ (validateCreateBooking(response'.input, bookings, patient_insurance)
                 \subseteq {ConflictError}
               => response'.error = ConflictError)]_vars

\* a createBooking for a slot a committed pending booking holds was answered with
\* the conflict error
LaterCreateRejectedWitness ==
  /\ response.op = "createBooking"
  /\ response.error = ConflictError
  /\ SlotTaken(response.input.doctorId, response.input.appointmentTime.t)

\* C3: when createBooking throws, neither the booking row nor the qr_codes row of
\* the call is persisted; when it returns a booking, both are.
CreateAllOrNothing ==
  response.op = "createBooking"
  => IF response.error = None
     THEN response.bookingId \in DOMAIN bookings /\ response.bookingId \in qr_codes
     ELSE response.bookingId \notin DOMAIN bookings /\ response.bookingId \notin qr_codes

\* C4: once a booking's stored status is cancelled or completed, no step changes it.
TerminalIsFinal ==
  [][\A b \in DOMAIN bookings :
       bookings[b].status \in {"cancelled", "completed"}
       => bookings'[b].status = bookings[b].status]_vars

\* C5: the UPDATE of updateBooking is applied only to a row whose stored status is
\* pending or confirmed at that moment.
UpdateOnlyNonTerminal ==
  [][\A p \in Procs :
       (pc[p] = "ub_update" /\ pc'[p] = "idle")
       => bookings[local[p].bookingId].status \in NonTerminal]_vars

\* this step is the start of a cancelBooking on booking b
CancelStarts(b) ==
  \/ \E p \in Procs : pc[p] = "idle" /\ pc'[p] = "cx_commit" /\ local'[p].bookingId = b
  \/ /\ response.op = None /\ response'.op = "cancelBooking" /\ pc' = pc
     /\ response'.bookingId = b

AlreadyCancelledError == "Cannot cancel booking with status: cancelled"

\* C6 (as stated): cancelBooking on a booking whose stored status is cancelled fails
\* with the invalid-state error and leaves the row and cancellation_fees unchanged.
CancelOfCancelledIsInvalidState ==
  [][\A b \in DOMAIN bookings :
       (bookings[b].status = "cancelled" /\ CancelStarts(b))
       => /\ pc' = pc
          /\ response'.error = AlreadyCancelledError
          /\ bookings' = bookings
          /\ cancellation_fees' = cancellation_fees]_vars

\* the actor is neither a patient-role caller other than the booking's patient nor a
\* doctor-role caller other than its doctor
PassesOwnerCheck(row, userId, userType) ==
  /\ ~(userType = "patient" /\ row.patient_id # userId)
  /\ ~(userType = "doctor" /\ row.doctor_id # userId)

\* C6 (amended): cancelBooking on a booking whose stored status is cancelled fails
\* and leaves the row and cancellation_fees unchanged; the error is the
\* invalid-state error when the actor passes the ownership check, and the
\* authorization error when it does not.
CancelOfCancelledRejected ==
  [][\A b \in DOMAIN bookings :
       (bookings[b].status = "cancelled" /\ CancelStarts(b))
       => /\ pc' = pc
          /\ response'.error =
               (IF PassesOwnerCheck(bookings[b], response'.userId, response'.userType)
                THEN AlreadyCancelledError
                ELSE "Unauthorized to cancel this booking")
          /\ bookings' = bookings
          /\ cancellation_fees' = cancellation_fees]_vars

\* a cancelBooking on a cancelled booking was answered with the invalid-state error
CancelOfCancelledWitness ==
  /\ response.op = "cancelBooking"
  /\ response.error = AlreadyCancelledError
  /\ bookings[response.bookingId].status = "cancelled"
  /\ bookings[response.bookingId].cancelled_by # None

\* C7: cancelBooking changes a booking only if the actor is its patient or its
\* assigned doctor, for every actor id and role value.
CancelOnlyByParticipants ==
  [][\A p \in Procs :
       (pc[p] = "cx_commit" /\ pc'[p] = "idle" /\ bookings' # bookings)
       => local[p].userId \in {bookings[local[p].bookingId].patient_id,
                               bookings[local[p].bookingId].doctor_id}]_vars

\* C8: getBooking never returns a booking to a patient-role requester other than
\* its patient, nor to a doctor-role requester other than its doctor, whatever the
\* cache holds.
GetBookingScoped ==
  response.op = "getBooking"
  => \A b \in response.ret :
       /\ response.userType = "patient" => b.patient_id = response.userId
       /\ response.userType = "doctor" => b.doctor_id = response.userId

\* a patient-role requester asked for another patient's booking while the cache
\* held a copy of it, and got nothing
GetBookingScopedWitness ==
  /\ response.op = "getBooking"
  /\ response.userType = "patient"
  /\ cache[response.bookingId] # {}
  /\ TheOne(cache[response.bookingId]).patient_id # response.userId
  /\ response.ret = {}

\* C9: listBookings returns only the requester's own bookings as patient when the
\* role is patient, and only the bookings assigned to the requester otherwise; no
\* requester receives a booking in which they are neither patient nor doctor.
ListBookingsScoped ==
  response.op = "listBookings"
  => \A b \in response.ret :
       /\ response.userType = "patient" => b.patient_id = response.userId
       /\ response.userType # "patient" => b.doctor_id = response.userId
       /\ response.userId \in {b.patient_id, b.doctor_id}

\* a patient listed their bookings and got some, while storage also held a booking
\* of another patient
ListBookingsScopedWitness ==
  /\ response.op = "listBookings"
  /\ response.userType = "patient"
  /\ response.ret # {}
  /\ \E b \in DOMAIN bookings : bookings[b].patient_id # response.userId

\* C10: every stored booking row has
\* insurance_covered_amount + patient_payment_amount = total_amount.
PricingInvariant ==
  \A b \in DOMAIN bookings :
    bookings[b].insurance_covered_amount + bookings[b].patient_payment_amount
      = bookings[b].total_amount

\* the three amount columns of a row
Amounts(row) ==
  <<row.total_amount, row.insurance_covered_amount, row.patient_payment_amount>>

\* C11: once a booking row exists, no step (an updateBooking, also one that
\* changes service_type_id, a cancelBooking, a payment, the removal of the
\* patient's insurance record) changes its total_amount,
\* insurance_covered_amount or patient_payment_amount.
AmountsFixedAtCreation ==
  [][\A b \in DOMAIN bookings :
       /\ b \in DOMAIN bookings'
       /\ Amounts(bookings'[b]) = Amounts(bookings[b])]_vars

\* a booking priced with insurance i1 for service s1 was moved to service s2 and
\* cancelled after the insurance record was removed; it still carries the amounts
\* of its creation
AmountsFixedWitness ==
  \E b \in DOMAIN bookings :
    /\ bookings[b].service_type_id = "s2"
    /\ bookings[b].status = "cancelled"
    /\ bookings[b].insurance_id = "i1"
    /\ "i1" \notin patient_insurance
    /\ Amounts(bookings[b]) = <<1000, 700, 300>>

BlockedSlotsUnavailable ==
  (response.op = "getDoctorAvailability" /\ ~response.input.fromCache)
  => \A a \in response.ret :
       \A i \in DOMAIN a.timeSlots :
         [doctor_id |-> a.doctorId,
          blocked_time |-> a.date * MinutesPerDay + a.timeSlots[i].time] \in blocked_slots
         => ~a.timeSlots[i].available

\* C14: no createBooking and no rescheduling updateBooking passes validation for a
\* (doctor, appointment time) that blocked_slots holds at that moment.
BlockedSlotRejected ==
  [][\A p \in Procs :
       /\ (pc[p] = "idle" /\ pc'[p] = "cb_tx")
          => [doctor_id |-> local'[p].input.doctorId,
              blocked_time |-> local'[p].input.appointmentTime.t] \notin blocked_slots
       /\ (pc[p] = "idle" /\ pc'[p] = "ub_update")
          => \A a \in local'[p].input.appointmentTime :
               [doctor_id |-> bookings[local'[p].bookingId].doctor_id,
                blocked_time |-> a.t] \notin blocked_slots]_vars

\* C15: every pending or confirmed booking's appointment time lies inside an
\* active schedule window of its doctor (same weekday, start_time <= time <
\* end_time), also after updateDoctorSchedule has replaced the schedules.
BookingsInsideSchedule ==
  \A b \in DOMAIN bookings :
    bookings[b].status \in NonTerminal
    => \E ds \in schedule_rows :
         /\ ds.doctor_id = bookings[b].doctor_id
         /\ ds.is_active
         /\ ds.day_of_week = getDay(bookings[b].appointment_time)
         /\ ds.start_time <= toTimeString(bookings[b].appointment_time)
         /\ toTimeString(bookings[b].appointment_time) < ds.end_time

\* C16: of the requests of one window that reach a counter store, the first
\* maxRequests are allowed and every later one is denied with status 429 and
\* 0 < retryAfter <= windowMs / 1000, retryAfter being the time to the end of the
\* window in whole seconds; the count starts again with the next window.
FixedWindowLimit ==
  (response.op = "checkRateLimit" /\ (response.input.cacheOk \/ response.input.dynamoOk))
  => IF response.input.nth <= maxRequests
     THEN response.ret = {}
     ELSE /\ response.ret # {}
          /\ \A r \in response.ret :
               /\ r.statusCode = 429
               /\ 0 < r.retryAfter
               /\ r.retryAfter * 1000 <= windowMs
               /\ r.retryAfter
                  = Ceil(Window(response.input.now) + windowMs - response.input.now, 1000)

\* C17: a request for which neither the Redis counter nor the DynamoDB counter is
\* reached is allowed, without an error, whatever the counters hold.
FailOpen ==
  (response.op = "checkRateLimit" /\ ~response.input.cacheOk /\ ~response.input.dynamoOk)
  => (response.ret = {} /\ response.error = None)

\* the identifier had used up its limit in the window (the Redis counter stands at
\* maxRequests or more) when a request reached neither counter, and was allowed
FailOpenWitness ==
  /\ response.op = "checkRateLimit"
  /\ ~response.input.cacheOk /\ ~response.input.dynamoOk
  /\ response.input.before >= maxRequests
  /\ rate_cache[Window(response.input.now)].count >= maxRequests
  /\ response.ret = {}

\* the number of cancellation_fees rows equal to row
FeeRows(fees, row) == IF row \in BagToSet(fees) THEN fees[row] ELSE 0

\* C19: when a cancelBooking call ends after its transaction was opened, either
\* the booking is cancelled with the call's reason, actor and timestamp and, when
\* a penalty was signalled, exactly one cancellation_fees row with amount
\* patient_payment_amount * penaltyPercentage / 100 was added by the same commit
\* (none otherwise), or the call failed and neither the booking nor the
\* cancellation_fees table changed.
CancelAllOrNothing ==
  [][\A p \in Procs :
       (pc[p] = "cx_commit" /\ pc'[p] = "idle")
       => LET id == local[p].bookingId IN
          \/ /\ response'.error = None
             /\ bookings'[id].status = "cancelled"
             /\ bookings'[id].cancellation_reason = Reason
             /\ bookings'[id].cancelled_by = local[p].userId
             /\ bookings'[id].cancelled_at = Now
             /\ IF tx[p].fee = {}
                THEN cancellation_fees' = cancellation_fees
                ELSE \E fee \in tx[p].fee :
                       /\ fee.booking_id = id
                       /\ fee.amount * 100
                          = bookings[id].patient_payment_amount * fee.percentage
                       /\ FeeRows(cancellation_fees', fee)
                          = FeeRows(cancellation_fees, fee) + 1
                       /\ \A other \in BagToSet(cancellation_fees') \ {fee} :
                            FeeRows(cancellation_fees', other)
                            = FeeRows(cancellation_fees, other)
          \/ /\ response'.error # None
             /\ bookings' = bookings
             /\ cancellation_fees' = cancellation_fees]_vars

\* a cancelBooking call with a signalled penalty of 50% has just returned: the
\* booking (patient payment 1000) is cancelled and its fee row of 500 is stored
CancelAllOrNothingWitness ==
  /\ response.op = "cancelBooking"
  /\ response.error = None
  /\ \E b \in DOMAIN bookings :
       /\ b = response.bookingId
       /\ bookings[b].status = "cancelled"
       /\ bookings[b].patient_payment_amount = 1000
       /\ [booking_id |-> b, amount |-> 500, percentage |-> 50]
            \in BagToSet(cancellation_fees)

\* the active policies of the clinic of the booking's doctor
ActivePolicies(booking) ==
  { cp \in policy_rows :
      /\ booking.doctor_id \in DOMAIN doctors
      /\ cp.clinic_id = doctors[booking.doctor_id].clinic_id
      /\ cp.is_active }

\* C18: when validateCancellation lets a cancellation pass, it returns a penalty
\* percentage above 0 if an active policy of the doctor's clinic exists whose
\* minimum notice is more than the time left until the appointment, and penalty
\* 0 with requiresPenalty false if there is no active policy or the time left is
\* at least the minimum notice of every active policy.
CancellationPenalty ==
  (response.op = "validateCancellation" /\ response.error = None)
  => \A result \in response.ret :
       LET booking == bookings[response.bookingId]
           minutesLeft == booking.appointment_time - Now
           late == { cp \in ActivePolicies(booking) :
                       minutesLeft < cp.minimum_hours_notice * 60 }
       IN /\ late # {} => result.penaltyPercentage > 0
          /\ late = {} => (result.penaltyPercentage = 0 /\ ~result.requiresPenalty)

\* the messages of validateCreateBooking for a time outside the booking window
OutOfWindowErrors ==
  { "Validation error",
    "Appointments must be booked at least 1 hour in advance",
    "Cannot book appointments more than 3 months in advance" }
OutOfWindow(t) == t < Now + 60 \/ t > maxBookingDate
\* every check of validateCreateBooking but those on the booking window passes
OtherChecksPass(input, bks, ins) ==
  /\ validateDoctor(input.doctorId) = {}
  /\ validatePatient(input.patientId) = {}
  /\ validateServiceType(input.serviceTypeId, input.doctorId) = {}
  /\ validateTimeSlot(input.doctorId, input.appointmentTime.t, NoId, bks)
       \cap {"Doctor is not available at this time", "This time slot is already booked"}
     = {}
  /\ (input.insuranceId # None
      => validateInsurance(input.insuranceId, input.patientId, ins) = {})

\* C20 as stated: every appointment time before now + 1 hour or after now + 3
\* months is rejected with an out-of-window error, and a time inside the window
\* is accepted when all other checks pass.
OutOfWindowRejectedWithWindowError ==
  response.op = "validateCreateBooking"
  => LET t == response.input.appointmentTime.t IN
     /\ OutOfWindow(t) => response.error \in OutOfWindowErrors
     /\ (~OutOfWindow(t) /\ OtherChecksPass(response.input, bookings, patient_insurance))
        => response.error = None

\* C20, amended: every appointment time before now + 1 hour or after now + 3
\* months is rejected; the error is an out-of-window error when all other checks
\* pass; a time inside the window is accepted when all other checks pass.
OutOfWindowRejected ==
  response.op = "validateCreateBooking"
  => LET t == response.input.appointmentTime.t
         others == OtherChecksPass(response.input, bookings, patient_insurance)
     IN /\ OutOfWindow(t) => response.error # None
        /\ (OutOfWindow(t) /\ others) => response.error \in OutOfWindowErrors
        /\ (~OutOfWindow(t) /\ others) => response.error = None

\* a request for now + 59 minutes, inside a schedule window and free, with every
\* other check passing, was rejected for its short notice
OutOfWindowRejectedWitness ==
  /\ response.op = "validateCreateBooking"
  /\ response.input.appointmentTime.t = Now + 59
  /\ OtherChecksPass(response.input, bookings, patient_insurance)
  /\ response.error = "Appointments must be booked at least 1 hour in advance"

(***************************************************************************)
(* Availability over a date range, and the slots of a day.  The schedule   *)
(* table and the bookings are those of the initial state: no action of     *)
(* SpecSlots changes them, so a cached answer was computed from the same   *)
(* rows as a fresh one.                                                     *)
(***************************************************************************)
RangeTooLargeError == "RangeTooLargeError"

\* the orders in which one call's getDoctorSchedules queries can list the rows of a
\* doctor: by start_time within a weekday, rows of equal start_time either way round
ListingOrders(doctorId, rows) ==
  { order \in Orderings({ ds \in rows : ds.doctor_id = doctorId }) :
      \A i, j \in DOMAIN order :
        (i < j /\ order[i].day_of_week = order[j].day_of_week)
          => order[i].start_time <= order[j].start_time }

\* the result of the getDoctorSchedules query of one day under a listing order
SchedulesListed(doctorId, dayOfWeek, serviceTypeId, rows, order) ==
  SelectSeq(order, LAMBDA ds :
              /\ ds.day_of_week = dayOfWeek
              /\ ds.is_active
              /\ (serviceTypeId # None => ds.service_type_id \in {serviceTypeId, None}))

\* the while loop of getDoctorAvailabilityRange from current to endDate: one
\* getDoctorAvailability call per turn, on the cache the earlier turns left
RECURSIVE RangeLoop(_, _, _, _, _, _, _, _, _, _)
RangeLoop(doctorId, current, endDate, serviceTypeId, cacheGetOk, setOk, order, c, bks, rows) ==
  IF current > endDate THEN [availabilities |-> <<>>, cache |-> c]
  ELSE LET got == getDoctorAvailability(doctorId, current, serviceTypeId, cacheGetOk,
                    setOk,
                    SchedulesListed(doctorId, current % 7, serviceTypeId, rows, order),
                    c, bks)
           rest == RangeLoop(doctorId, current + 1, endDate, serviceTypeId, cacheGetOk,
                             setOk, order, got.cache, bks, rows)
       IN [availabilities |-> <<TheOne(got.ret)>> \o rest.availabilities,
           cache |-> rest.cache]

\* fault: the limit test written daysDiff >= 30
getDoctorAvailabilityRange_rejects30(doctorId, startDate, endDate, serviceTypeId, cacheGetOk, setOk, order, c, bks, rows) ==
  LET daysDiff == endDate - startDate
  IN IF daysDiff >= MaxRangeDays
     THEN [error |-> RangeTooLargeError, ret |-> {}, cache |-> c]
     ELSE LET done == RangeLoop(doctorId, startDate, endDate, serviceTypeId, cacheGetOk,
                                setOk, order, c, bks, rows)
          IN [error |-> None, ret |-> {[availabilities |-> done.availabilities]},
              cache |-> done.cache]

\* getDoctorAvailabilityRange(doctorId, startDate, endDate, serviceTypeId): dates are
\* day numbers, so end.diff(start, 'days') is their difference
getDoctorAvailabilityRange(doctorId, startDate, endDate, serviceTypeId, cacheGetOk, setOk, order, c, bks, rows) ==
  LET daysDiff == endDate - startDate
  IN IF daysDiff > MaxRangeDays
     THEN [error |-> RangeTooLargeError, ret |-> {}, cache |-> c]
     ELSE LET done == RangeLoop(doctorId, startDate, endDate, serviceTypeId, cacheGetOk,
                                setOk, order, c, bks, rows)
          IN [error |-> None, ret |-> {[availabilities |-> done.availabilities]},
              cache |-> done.cache]

\* the first days and the lengths (endDate - startDate) of the modelled ranges
RangeStarts == {Today, Today + 1}
RangeLengths == {0 - 1, 0, MaxRangeDays, MaxRangeDays + 1}

getDoctorAvailabilityRange_request ==
  /\ response.op = None
  /\ \E startDate \in RangeStarts, len \in RangeLengths, serviceTypeId \in ServiceFilters,
        cacheGetOk \in BOOLEAN, setOk \in BOOLEAN,
        order \in ListingOrders("d1", schedule_rows) :
       LET got == getDoctorAvailabilityRange("d1", startDate, startDate + len,
                    serviceTypeId, cacheGetOk, setOk, order, availability, bookings,
                    schedule_rows)
       IN /\ availability' = got.cache
          /\ response' = Resp("getDoctorAvailabilityRange", got.error, NoId,
                              [doctorId |-> "d1", startDate |-> startDate,
                               endDate |-> startDate + len,
                               serviceTypeId |-> serviceTypeId],
                              None, None, got.ret)
  /\ UNCHANGED <<bookingVars, schedule_rows, blocked_slots, rateVars, policyVars, effectVars, bucketVars>>

\* the dates of the modelled one-day requests: today and the next Monday
SlotDates == {Today, Today + 7}

getDoctorAvailability_onDate ==
  /\ response.op = None
  /\ \E date \in SlotDates, serviceTypeId \in ServiceFilters, cacheGetOk \in BOOLEAN,
        setOk \in BOOLEAN :
     \E schedules \in getDoctorSchedules("d1", date % 7, serviceTypeId, schedule_rows) :
       LET got == getDoctorAvailability("d1", date, serviceTypeId, cacheGetOk, setOk,
                                        schedules, availability, bookings)
       IN /\ availability' = got.cache
          /\ response' = Resp("getDoctorAvailability", None, NoId,
                              [doctorId |-> "d1", date |-> date,
                               serviceTypeId |-> serviceTypeId,
                               fromCache |-> got.fromCache],
                              None, None, got.ret)
  /\ UNCHANGED <<bookingVars, schedule_rows, blocked_slots, rateVars, policyVars, effectVars, bucketVars>>

\* a schedule row of d1 on Mondays
Monday(startTime, endTime, slotDuration, serviceTypeId) ==
  [doctor_id |-> "d1", day_of_week |-> 1, start_time |-> startTime, end_time |-> endTime,
   slot_duration_minutes |-> slotDuration, service_type_id |-> serviceTypeId,
   is_active |-> TRUE]

\* doctor_schedules tables: the reference rows; two overlapping windows of one service
\* type; a window its slot length does not divide and one without a service type;
\* an inactive row and a window that ends where it starts
ScheduleTables ==
  { doctor_schedules,
    { Monday(9 * 60, 12 * 60, 30, "s1"), Monday(10 * 60, 11 * 60, 20, "s1") },
    { Monday(9 * 60, 10 * 60, 45, "s1"), Monday(13 * 60, 14 * 60, 60, None) },
    { [Monday(9 * 60, 12 * 60, 30, "s1") EXCEPT !.is_active = FALSE],
      Monday(14 * 60, 14 * 60, 30, "s1"), Monday(15 * 60, 16 * 60, 15, "s1") } }

\* bookings tables: empty, or one booking of d1 on the next Monday at 09:30
SlotBookingTables ==
  { <<>> } \cup
  { (1 :> [b[1] EXCEPT !.appointment_time = At(Today + 7, 9, 30)]) : b \in BookingTables }

InitSlots ==
  /\ schedule_rows \in ScheduleTables
  /\ bookings \in SlotBookingTables
  /\ qr_codes = DOMAIN bookings
  /\ calls = Cardinality(DOMAIN bookings)
  /\ cancellation_fees = EmptyBag
  /\ patient_insurance = {"i1"}
  /\ payment_intents = {}
  /\ cache = [b \in BookingIds |-> {}]
  /\ pc = [p \in Procs |-> "idle"]
  /\ local = [p \in Procs |-> NoLocal]
  /\ tx = [p \in Procs |-> NoTx]
  /\ response = NoResp
  /\ blocked_slots = {}
  /\ availability = [k \in AvailabilityKeys |-> {}]
  /\ clock = 0
  /\ rate_cache = [w \in Windows |-> NoCounter]
  /\ rate_dynamo = [w \in Windows |-> 0]
  /\ sent = [w \in Windows |-> NoSent]
  /\ policy_rows = cancellation_policies
  /\ effects = [p \in Procs |-> <<>>]
  /\ bucket = TokenBucket(1, 1, 0)

NextSlots ==
  \/ getDoctorAvailabilityRange_request
  \/ getDoctorAvailability_onDate
  \/ Return

SpecSlots == InitSlots /\ [][NextSlots]_vars

\* C21: a getDoctorAvailabilityRange call whose end date is more than 30 days after
\* its start date fails with the range-too-large error, returns nothing and leaves the
\* availability cache as it was; every other call returns one availability entry per
\* day from the start date to the end date inclusive, in ascending date order.
RangePerDay ==
  [][response'.op = "getDoctorAvailabilityRange" =>
       LET startDate == response'.input.startDate
           endDate == response'.input.endDate
       IN IF endDate - startDate > 30
          THEN /\ response'.error = RangeTooLargeError
               /\ response'.ret = {}
               /\ availability' = availability
          ELSE /\ response'.error = None
               /\ \A r \in response'.ret :
                    /\ DOMAIN r.availabilities = 1..(endDate - startDate + 1)
                    /\ \A i \in DOMAIN r.availabilities :
                         /\ r.availabilities[i].date = startDate + i - 1
                         /\ r.availabilities[i].doctorId = response'.input.doctorId
               /\ response'.ret # {}]_vars

\* a range of exactly 30 days was answered with 31 entries
RangePerDayWitness ==
  /\ response.op = "getDoctorAvailabilityRange"
  /\ response.input.endDate - response.input.startDate = 30
  /\ response.error = None
  /\ \E r \in response.ret :
       /\ Len(r.availabilities) = 31
       /\ \E i \in DOMAIN r.availabilities : r.availabilities[i].timeSlots # <<>>

\* the active schedule rows that a getDoctorAvailability request for the doctor, the
\* date and the service-type filter matches
MatchingWindows(doctorId, date, serviceTypeId) ==
  { ds \in schedule_rows :
      /\ ds.doctor_id = doctorId
      /\ ds.day_of_week = getDay(date * MinutesPerDay)
      /\ ds.is_active
      /\ (serviceTypeId # None => ds.service_type_id \in {serviceTypeId, None}) }

\* time is a slot start of the window: start + k * d for some k >= 0, before the end
SlotStartOf(ds, time) ==
  /\ ds.start_time <= time
  /\ time < ds.end_time
  /\ (time - ds.start_time) % ds.slot_duration_minutes = 0

\* C22: on a date that is not today and on which the doctor has no pending or
\* confirmed booking, every slot getDoctorAvailability returns is available, and for
\* every time of day the answer holds as many slots of that time as there are matching
\* schedule windows [start, end) with start + k * d = time < end for some k >= 0: the
\* slots of each window, and those of several windows side by side without
\* de-duplication.
SlotsOfEveryWindow ==
  (/\ response.op = "getDoctorAvailability"
   /\ response.input.date # Today
   /\ getBookingsForDate(response.input.doctorId, response.input.date, bookings) = {})
  => \A a \in response.ret :
       /\ \A i \in DOMAIN a.timeSlots : a.timeSlots[i].available
       /\ \A time \in 0..(MinutesPerDay - 1) :
            Cardinality({ i \in DOMAIN a.timeSlots : a.timeSlots[i].time = time })
            = Cardinality({ ds \in MatchingWindows(response.input.doctorId,
                                                   response.input.date,
                                                   response.input.serviceTypeId) :
                              SlotStartOf(ds, time) })

\* the windows 09:00-12:00 of 30 minutes and 10:00-11:00 of 20 minutes on a later day
\* without bookings: 09:00 ... 11:30 and 10:00, 10:20, 10:40, with 10:00 twice
SlotsOfEveryWindowWitness ==
  /\ response.op = "getDoctorAvailability"
  /\ response.input.date = Today + 7
  /\ getBookingsForDate("d1", Today + 7, bookings) = {}
  /\ \E a \in response.ret :
       /\ [ i \in DOMAIN a.timeSlots |-> a.timeSlots[i].time ]
          = << 9 * 60, 9 * 60 + 30, 10 * 60, 10 * 60, 10 * 60 + 20, 10 * 60 + 30,
               10 * 60 + 40, 11 * 60, 11 * 60 + 30 >>
       /\ \A i \in DOMAIN a.timeSlots : a.timeSlots[i].available

\* C23: in every availability that getDoctorAvailability returns, alone or as an entry
\* of a range, the slots are in ascending order of time of day, and the slots of one
\* schedule window stand at strictly increasing times: the first slot of the window's
\* service type at each of its slot starts comes before that of every later slot start.
SlotsInTimeOrder ==
  LET answers ==
        IF response.op = "getDoctorAvailability" THEN response.ret
        ELSE IF response.op = "getDoctorAvailabilityRange"
        THEN UNION { { r.availabilities[i] : i \in DOMAIN r.availabilities } :
                       r \in response.ret }
        ELSE {}
      First(a, ds, time) ==
        MinOf({ i \in DOMAIN a.timeSlots :
                  /\ a.timeSlots[i].time = time
                  /\ a.timeSlots[i].serviceTypeId = ds.service_type_id })
  IN \A a \in answers :
       /\ \A i, j \in DOMAIN a.timeSlots :
            i < j => a.timeSlots[i].time <= a.timeSlots[j].time
       /\ \A ds \in MatchingWindows(a.doctorId, a.date, response.input.serviceTypeId) :
            \A t1, t2 \in { a.timeSlots[i].time : i \in DOMAIN a.timeSlots } :
              (SlotStartOf(ds, t1) /\ SlotStartOf(ds, t2) /\ t1 < t2)
                => First(a, ds, t1) < First(a, ds, t2)

\* an answer with the slots of two windows interleaved: two slots of one time, and a
\* slot of the first window after a slot of the second
SlotsInTimeOrderWitness ==
  /\ response.op = "getDoctorAvailability"
  /\ \E a \in response.ret :
       \E i, j, k \in DOMAIN a.timeSlots :
         /\ i < j /\ j < k
         /\ a.timeSlots[i].time = a.timeSlots[j].time
         /\ a.timeSlots[i].serviceTypeId # a.timeSlots[j].serviceTypeId
         /\ a.timeSlots[k].serviceTypeId = a.timeSlots[i].serviceTypeId
         /\ a.timeSlots[j].time < a.timeSlots[k].time

\* C25: in createBooking and cancelBooking every cache write or delete and every
\* notification dispatch of a call comes after the call's commitTransaction, and a call
\* that issues rollbackTransaction has written or deleted no cache key and dispatched
\* no notification.
SideEffectsAfterCommit ==
  \A p \in Procs :
    LET made == effects[p]
        SideEffects == {CacheSetex, CacheDel, CacheDelFailed, SendNotification}
    IN (pc[p] \in {"cb_commit", "cx_commit"} \/ response.op \in {"createBooking", "cancelBooking"})
       => /\ \A i \in DOMAIN made :
               made[i] \in SideEffects
                 => \E j \in 1..(i - 1) : made[j] = CommitTransaction
          /\ (\E i \in DOMAIN made : made[i] = RollbackTransaction)
               => \A i \in DOMAIN made : made[i] \notin SideEffects

NextSchedule ==
  \/ \E p \in Procs : updateDoctorSchedule_start(p)
  \/ \E p \in Procs : updateDoctorSchedule_commit(p)
  \/ getDoctorAvailability_request
  \/ AvailabilityExpire
  \/ Return

SpecSchedule == Init /\ [][NextSchedule]_vars

\* the active doctor_schedules rows of a doctor
ActiveSchedules(doctorId, rows) == { ds \in rows : ds.doctor_id = doctorId /\ ds.is_active }

\* C26: when updateDoctorSchedule returns, the doctor's active schedules are exactly
\* the rows of the supplied list; when it fails, the table is as it was before; and
\* the committed table, which is what a reader sees, never shows the doctor without
\* an active schedule (every supplied list has a row).
ScheduleReplacedAtomically ==
  [][/\ (response'.op = "updateDoctorSchedule" /\ response'.error = None)
          => ActiveSchedules("d1", schedule_rows')
             = InsertedSchedules("d1", response'.input.schedules)
     /\ (response'.op = "updateDoctorSchedule" /\ response'.error # None)
          => schedule_rows' = schedule_rows
     /\ ActiveSchedules("d1", schedule_rows') # {}]_vars

\* C27: a checkRateLimit call whose incr reaches Redis adds exactly 1 to the Redis
\* counter of the window of its time and leaves the DynamoDB items alone; one whose
\* incr does not reach Redis and whose update reaches DynamoDB adds exactly 1 to the
\* DynamoDB item of that window; whether the request is allowed or denied makes no
\* difference, and no call changes a counter of another window.  No step makes a
\* DynamoDB count smaller, and a Redis count only becomes smaller when Redis drops the
\* key after its window has ended.
CounterCountsEveryCall ==
  [][/\ response'.op = "checkRateLimit" =>
          LET w == Window(response'.input.now)
          IN /\ rate_cache'[w].count
                = rate_cache[w].count + (IF response'.input.cacheOk THEN 1 ELSE 0)
             /\ rate_dynamo'[w]
                = rate_dynamo[w]
                  + (IF ~response'.input.cacheOk /\ response'.input.dynamoOk THEN 1 ELSE 0)
             /\ \A v \in Windows \ {w} :
                  /\ rate_cache'[v].count = rate_cache[v].count
                  /\ rate_dynamo'[v] = rate_dynamo[v]
     /\ \A w \in Windows :
          /\ rate_dynamo'[w] >= rate_dynamo[w]
          /\ rate_cache'[w].count < rate_cache[w].count
               => (response'.op # "checkRateLimit" /\ clock >= w + windowMs)]_vars

\* a request was denied and still counted: the Redis counter of its window stands
\* two over the limit
CounterCountsEveryCallWitness ==
  /\ response.op = "checkRateLimit"
  /\ response.ret # {}
  /\ response.input.cacheOk
  /\ rate_cache[Window(response.input.now)].count = maxRequests + 2


(***************************************************************************)
(* RateLimiter: the counter key of a request.  Strings are strings, and     *)
(* template literals are concatenations; every request falls in the window  *)
(* that starts at 0.                                                        *)
(***************************************************************************)
\* event.requestContext.authorizer.claims.sub and event.requestContext.identity.sourceIp
\* are sets, empty when the request carries none
RateEvent(sub, sourceIp, httpMethod, path) ==
  [sub |-> sub, sourceIp |-> sourceIp, httpMethod |-> httpMethod, path |-> path]
\* two Cognito subjects, and the addresses their requests and the anonymous ones come from
RateSubjects == {"0b6e2c1a-77aa-4d1e-9c3f-5a1d2e3f4a5b", "9f8e7d6c-5b4a-4c3d-8e2f-1a0b9c8d7e6f"}
RateAddresses == {"2001:db8::1", "203.0.113.7"}
RateEvents ==
  { RateEvent(sub, {ip}, method, "/payments") :
      sub \in {{}} \cup { {s} : s \in RateSubjects }, ip \in RateAddresses,
      method \in {"GET", "POST"} }

\* getKeyGenerator(event)
getKeyGenerator(event) ==
  IF event.sub # {} THEN TheOne(event.sub)
  ELSE "ip:" \o (IF event.sourceIp # {} THEN TheOne(event.sourceIp) ELSE "unknown")

\* fault: the endpoint key without the method
getEndpointKey_pathOnly(event) ==
  event.path

\* getEndpointKey(event)
getEndpointKey(event) ==
  event.httpMethod \o " " \o event.path

\* CacheKeys.rateLimit(userId, endpoint, window)
CacheKeys_rateLimit(userId, endpoint, window) ==
  "ratelimit:" \o userId \o ":" \o endpoint \o ":" \o window

\* the key checkRateLimit builds for a request at time now
RateLimitKey(event, now) ==
  CacheKeys_rateLimit(getKeyGenerator(event), getEndpointKey(event), ToString(Window(now)))
RateKeys == { RateLimitKey(event, 0) : event \in RateEvents }

\* DEFAULT_CONFIG.maxRequests
DefaultMaxRequests == 10
\* { ...DEFAULT_CONFIG, ...RATE_LIMITS[endpoint] }.maxRequests, for the endpoints of
\* RateEvents (their windowMs is that of DEFAULT_CONFIG)
RATE_LIMITS(endpoint) ==
  IF endpoint = "POST /payments" THEN maxRequests ELSE DefaultMaxRequests

\* checkRateLimit(event) at time now on the Redis counters rc and the DynamoDB items
\* rd: the response (empty: request allowed) and the two stores afterwards
checkRateLimit_event(event, now, cacheOk, dynamoOk, rc, rd) ==
  LET endpoint == getEndpointKey(event)
      key == RateLimitKey(event, now)
      fromCache == checkCache(key, now, cacheOk, TRUE, rc)
      fromDynamo == checkDynamoDB(key, dynamoOk, rd)
      answer(count) ==
        IF count > RATE_LIMITS(endpoint)
        THEN {[statusCode |-> 429,
               retryAfter |-> Ceil(Window(now) + windowMs - now, 1000)]}
        ELSE {}
  IN IF fromCache.count # {}
     THEN [result |-> answer(TheOne(fromCache.count)),
           cache |-> fromCache.cache, table |-> rd]
     ELSE IF fromDynamo.count # {}
     THEN [result |-> answer(TheOne(fromDynamo.count)),
           cache |-> fromCache.cache, table |-> fromDynamo.table]
     ELSE [result |-> {}, cache |-> rc, table |-> rd]

\* the (identity, endpoint) pairs that send requests in one run, at most
MaxCallers == 2
\* one request of one of the callers
checkRateLimit_anyone ==
  /\ response.op = None
  /\ SentInAll(sent) < MaxSent
  /\ \E event \in RateEvents, cacheOk \in BOOLEAN :
       LET got == checkRateLimit_event(event, clock, cacheOk, TRUE, rate_cache, rate_dynamo)
           key == RateLimitKey(event, clock)
       IN /\ Cardinality({ k \in RateKeys : k = key \/ sent[k].requests > 0 }) <= MaxCallers
          /\ rate_cache' = got.cache
          /\ rate_dynamo' = got.table
          /\ sent' = [sent EXCEPT ![key] = [requests |-> @.requests + 1,
                                            reached |-> @.reached + 1]]
          /\ response' = Resp("checkRateLimit", None, NoId,
                              [event |-> event, cacheOk |-> cacheOk],
                              None, None, got.result)
  /\ UNCHANGED <<bookingVars, availVars, clock, policyVars, effectVars, bucketVars>>

InitRateKeys ==
  /\ bookings = <<>>
  /\ qr_codes = {}
  /\ cancellation_fees = EmptyBag
  /\ patient_insurance = {"i1"}
  /\ payment_intents = {}
  /\ cache = [b \in BookingIds |-> {}]
  /\ pc = [p \in Procs |-> "idle"]
  /\ local = [p \in Procs |-> NoLocal]
  /\ tx = [p \in Procs |-> NoTx]
  /\ response = NoResp
  /\ calls = 0
  /\ schedule_rows = doctor_schedules
  /\ blocked_slots = {}
  /\ availability = [k \in AvailabilityKeys |-> {}]
  /\ clock = 0
  /\ rate_cache = [k \in RateKeys |-> NoCounter]
  /\ rate_dynamo = [k \in RateKeys |-> 0]
  /\ sent = [k \in RateKeys |-> NoSent]
  /\ policy_rows = cancellation_policies
  /\ effects = [p \in Procs |-> <<>>]
  /\ bucket = TokenBucket(1, 1, 0)

NextRateKeys ==
  \/ checkRateLimit_anyone
  \/ Return

SpecRateKeys == InitRateKeys /\ [][NextRateKeys]_vars

\* who sends a request (the authenticated subject, else the source address) to which
\* endpoint
RatePairOf(event) ==
  <<event.sub, IF event.sub # {} THEN {} ELSE event.sourceIp, event.httpMethod, event.path>>

\* C28: a checkRateLimit call of one (identity, endpoint) pair, an identity being an
\* authenticated subject id or an anonymous source address, counts under a key that no
\* request of another pair counts under, and leaves the answer that checkRateLimit
\* gives to the requests of every other pair as it was.
RateLimitIsolation ==
  [][response.op = None /\ response'.op = "checkRateLimit" =>
       \A other \in RateEvents :
         RatePairOf(other) # RatePairOf(response'.input.event) =>
           /\ RateLimitKey(other, clock) # RateLimitKey(response'.input.event, clock)
           /\ \A cacheOk \in BOOLEAN, dynamoOk \in BOOLEAN :
                checkRateLimit_event(other, clock, cacheOk, dynamoOk,
                                     rate_cache', rate_dynamo').result
                  = checkRateLimit_event(other, clock, cacheOk, dynamoOk,
                                         rate_cache, rate_dynamo).result]_vars

\* an anonymous request is allowed from the address from which an authenticated
\* subject has used up the limit of the same endpoint
RateLimitIsolationWitness ==
  /\ response.op = "checkRateLimit"
  /\ response.input.event.sub = {}
  /\ response.ret = {}
  /\ \E other \in RateEvents :
       /\ other.sub # {}
       /\ other.sourceIp = response.input.event.sourceIp
       /\ other.httpMethod = response.input.event.httpMethod
       /\ rate_cache[RateLimitKey(other, clock)].count > RATE_LIMITS(getEndpointKey(other))


(***************************************************************************)
(* TokenBucket.  Date.now() advances in quarters of a second, so that every *)
(* token count is a multiple of a quarter token and the floating-point      *)
(* arithmetic of the class is exact.                                        *)
(***************************************************************************)
BucketTickMs == 1000 \div 4
\* the modelled time span, in ticks
MaxBucketTicks == 8
BucketCapacities == {1, 3}
BucketRefillRates == {0, 1, 2}
\* the argument of consume, in tokens
ConsumeAmounts == {0, 1, 2}
Min(a, b) == IF a < b THEN a ELSE b

\* fault: refill without Math.min
refill_uncapped(b, now) ==
  [b EXCEPT !.tokens = b.tokens + (now - b.lastRefill) * b.refillRate, !.lastRefill = now]

\* refill()
refill(b, now) ==
  [b EXCEPT !.tokens = Min(b.capacity, b.tokens + (now - b.lastRefill) * b.refillRate),
            !.lastRefill = now]

\* consume(tokens): the value returned and the object afterwards
consume(b, tokens, now) ==
  LET refilled == refill(b, now)
  IN IF refilled.tokens >= tokens * 1000
     THEN [ret |-> TRUE, bucket |-> [refilled EXCEPT !.tokens = @ - tokens * 1000]]
     ELSE [ret |-> FALSE, bucket |-> refilled]

\* getAvailableTokens(): Math.floor(this.tokens)
getAvailableTokens(b, now) ==
  [ret |-> refill(b, now).tokens \div 1000, bucket |-> refill(b, now)]

consume_call ==
  /\ response.op = None
  /\ \E tokens \in ConsumeAmounts :
       LET got == consume(bucket, tokens, clock)
       IN /\ bucket' = got.bucket
          /\ response' = Resp("consume", None, NoId, [tokens |-> tokens], None, None,
                              {[consumed |-> got.ret]})
  /\ UNCHANGED <<bookingVars, availVars, rateVars, policyVars, effectVars>>

getAvailableTokens_call ==
  /\ response.op = None
  /\ bucket' = getAvailableTokens(bucket, clock).bucket
  /\ response' = Resp("getAvailableTokens", None, NoId, NoInput, None, None,
                      {[available |-> getAvailableTokens(bucket, clock).ret]})
  /\ UNCHANGED <<bookingVars, availVars, rateVars, policyVars, effectVars>>

\* time passes
BucketTick ==
  /\ response.op = None
  /\ clock + BucketTickMs <= MaxBucketTicks * BucketTickMs
  /\ clock' = clock + BucketTickMs
  /\ UNCHANGED <<bookingVars, response, availVars, rate_cache, rate_dynamo, sent,
                 policyVars, effectVars, bucketVars>>

InitBucket ==
  /\ bookings = <<>>
  /\ qr_codes = {}
  /\ cancellation_fees = EmptyBag
  /\ patient_insurance = {"i1"}
  /\ payment_intents = {}
  /\ cache = [b \in BookingIds |-> {}]
  /\ pc = [p \in Procs |-> "idle"]
  /\ local = [p \in Procs |-> NoLocal]
  /\ tx = [p \in Procs |-> NoTx]
  /\ response = NoResp
  /\ calls = 0
  /\ schedule_rows = doctor_schedules
  /\ blocked_slots = {}
  /\ availability = [k \in AvailabilityKeys |-> {}]
  /\ clock = 0
  /\ rate_cache = [w \in Windows |-> NoCounter]
  /\ rate_dynamo = [w \in Windows |-> 0]
  /\ sent = [w \in Windows |-> NoSent]
  /\ policy_rows = cancellation_policies
  /\ effects = [p \in Procs |-> <<>>]
  /\ \E capacity \in BucketCapacities, refillRate \in BucketRefillRates :
       bucket = TokenBucket(capacity, refillRate, clock)

NextBucket ==
  \/ consume_call
  \/ getAvailableTokens_call
  \/ BucketTick
  \/ Return

SpecBucket == InitBucket /\ [][NextBucket]_vars

\* the tokens of the bucket at time now, were they refilled then: those it holds and
\* refillRate more for every second since the last refill, up to the capacity
LazilyRefilled(b, now) ==
  IF b.tokens + (now - b.lastRefill) * b.refillRate > b.capacity THEN b.capacity
  ELSE b.tokens + (now - b.lastRefill) * b.refillRate

\* C29: the token count of a TokenBucket stays between 0 and its capacity; consume(n)
\* with n >= 0 returns true exactly when the lazily refilled count is at least n, and
\* leaves that count less n, and when it returns false it leaves that count;
\* getAvailableTokens leaves the lazily refilled count.
TokenBucketContract ==
  [][/\ bucket.tokens >= 0 /\ bucket.tokens <= bucket.capacity
     /\ bucket'.tokens >= 0 /\ bucket'.tokens <= bucket'.capacity
     /\ response.op = None /\ response'.op = "consume" =>
          LET n == response'.input.tokens * 1000
              consumed == TheOne(response'.ret).consumed
          IN /\ consumed <=> LazilyRefilled(bucket, clock) >= n
             /\ consumed => bucket'.tokens = LazilyRefilled(bucket, clock) - n
             /\ ~consumed => bucket'.tokens = LazilyRefilled(bucket, clock)
     /\ response.op = None /\ response'.op = "getAvailableTokens" =>
          bucket'.tokens = LazilyRefilled(bucket, clock)]_vars

\* a consume call was refused, of a bucket that held tokens and had been refilled
\* part of the way
TokenBucketContractWitness ==
  /\ response.op = "consume"
  /\ ~TheOne(response.ret).consumed
  /\ bucket.tokens > 0
  /\ bucket.tokens < bucket.capacity
  /\ bucket.lastRefill > 0


(***************************************************************************)
(* createBooking for a patient whose insurance records carry the coverage   *)
(* percentages 0, 70 and 100.                                               *)
(***************************************************************************)
PricingInputs ==
  { [patientId |-> "p1", doctorId |-> "d1", serviceTypeId |-> serviceTypeId,
     appointmentTime |-> StringTime(t), insuranceId |-> insuranceId] :
      serviceTypeId \in DOMAIN service_types, t \in {T0930, T1030, T1300},
      insuranceId \in {None} \cup DOMAIN insurance_rows }

InitPricing ==
  /\ bookings = <<>>
  /\ qr_codes = {}
  /\ cancellation_fees = EmptyBag
  /\ patient_insurance = DOMAIN insurance_rows
  /\ payment_intents = {}
  /\ cache = [b \in BookingIds |-> {}]
  /\ pc = [p \in Procs |-> "idle"]
  /\ local = [p \in Procs |-> NoLocal]
  /\ tx = [p \in Procs |-> NoTx]
  /\ response = NoResp
  /\ calls = 0
  /\ schedule_rows = doctor_schedules
  /\ blocked_slots = {}
  /\ availability = [k \in AvailabilityKeys |-> {}]
  /\ clock = 0
  /\ rate_cache = [w \in Windows |-> NoCounter]
  /\ rate_dynamo = [w \in Windows |-> 0]
  /\ sent = [w \in Windows |-> NoSent]
  /\ policy_rows = cancellation_policies
  /\ effects = [p \in Procs |-> <<>>]
  /\ bucket = TokenBucket(1, 1, 0)

NextPricing ==
  \/ createBooking_from("w1", PricingInputs)
  \/ createBooking_tx("w1")
  \/ createBooking_commit("w1")
  \/ Return

SpecPricing == InitPricing /\ [][NextPricing]_vars

\* C30: a booking row created with an insurance id for an insurance-eligible service
\* holds insurance_covered_amount = base_price * coverage_percentage / 100 and
\* patient_payment_amount = base_price - insurance_covered_amount, for every
\* coverage_percentage from 0 to 100 of the insurance record; every other row holds
\* patient_payment_amount = base_price and insurance_covered_amount = 0.
AmountsFollowCoverage ==
  \A b \in DOMAIN bookings :
    LET row == bookings[b]
        service == service_types[row.service_type_id]
        covered == (service.base_price * insurance_rows[row.insurance_id].coverage_percentage)
                     \div 100
    IN IF row.insurance_id # None /\ service.insurance_covered
       THEN /\ row.insurance_covered_amount = covered
            /\ row.patient_payment_amount = service.base_price - covered
       ELSE /\ row.insurance_covered_amount = 0
            /\ row.patient_payment_amount = service.base_price


(***************************************************************************)
(* BookingService.listBookings: the count query.  A query text is the list  *)
(* of its words and of the white space between them.                        *)
(***************************************************************************)
\* the line break and indentation between two lines of the template literal
LineBreak == "\n        "
\* lines 220-225: the select list as the template literal of query holds it
SelectList ==
  <<"SELECT", " ", "b.*,", " " \o LineBreak,
    "p.name as patient_name,", " ", "p.email as patient_email,", LineBreak,
    "d.name as doctor_name,", " ", "d.specialization,", LineBreak,
    "st.name as service_name,", " ", "st.duration_minutes,", LineBreak,
    "c.name as clinic_name">>
\* line 262: the text that query.replace looks for
CountPattern ==
  <<"SELECT", " ", "b.*,", " ",
    "p.name as patient_name,", " ", "p.email as patient_email,", " ",
    "d.name as doctor_name,", " ", "d.specialization,", " ",
    "st.name as service_name,", " ", "st.duration_minutes,", " ",
    "c.name as clinic_name">>
SelectCount == <<"SELECT", " ", "COUNT(*)">>

\* String.prototype.replace(pattern, replacement) with a string pattern: the first
\* occurrence is replaced, and a text without one is returned as it is
StringReplace(text, pattern, replacement) ==
  LET at == { i \in 1..Len(text) :
                /\ i + Len(pattern) - 1 <= Len(text)
                /\ SubSeq(text, i, i + Len(pattern) - 1) = pattern }
  IN IF at = {} THEN text
     ELSE LET i == MinOf(at)
          IN SubSeq(text, 1, i - 1) \o replacement
               \o SubSeq(text, i + Len(pattern), Len(text))

\* line 262: countQuery, as its select list
countQuery(selectList) ==
  StringReplace(selectList, CountPattern, SelectCount)

\* lines 262-264: total.  The count query returns one row with a count column when
\* its select list is COUNT(*), and the selected booking rows otherwise;
\* countResult.records[0].count of no row is a TypeError, and parseInt of a missing
\* column is NaN (total is then the empty set)
listBookings_total(userId, userType, filters, bks) ==
  LET matching == listBookings_where(userId, userType, filters, bks)
  IN IF countQuery(SelectList) = SelectCount
     THEN [error |-> None, total |-> {Cardinality(matching)}]
     ELSE IF matching = {} THEN [error |-> "TypeError", total |-> {}]
     ELSE [error |-> None, total |-> {}]

\* the filters of the requests: none, and a page of one row after the first
PageFilters ==
  { [status |-> status, startDate |-> NoTime, endDate |-> NoTime,
     limit |-> limit, offset |-> offset] :
      status \in {None, "pending"}, limit \in {0, 1}, offset \in {0, 1} }

\* listBookings(userId, userType, filters): { bookings, total }, or the error thrown
\* before the page is queried
listBookings_page ==
  /\ response.op = None
  /\ \E r \in Requesters, filters \in PageFilters :
       LET counted == listBookings_total(r.userId, r.userType, filters, bookings)
       IN response' =
            Resp("listBookings", counted.error, NoId, filters, r.userId, r.userType,
                 IF counted.error # None THEN {}
                 ELSE {[bookings |-> listBookings(r.userId, r.userType, filters, bookings),
                        total |-> counted.total]})
  /\ UNCHANGED <<bookingVars, availVars, rateVars, policyVars, effectVars, bucketVars>>

NextList ==
  \/ createBooking_from("w1", PricingInputs)
  \/ createBooking_tx("w1")
  \/ createBooking_commit("w1")
  \/ listBookings_page
  \/ Return

SpecList == InitPricing /\ [][NextList]_vars

\* C31: listBookings returns at most limit bookings (20 when none is given) and a total
\* that is the number of all the bookings matching the role scope of the requester and
\* the status and date filters, whatever limit and offset are.
ListTotalCountsAllMatches ==
  response.op = "listBookings"
  => /\ response.error = None
     /\ \A page \in response.ret :
          /\ Cardinality(page.bookings)
               <= (IF response.input.limit # 0 THEN response.input.limit ELSE 20)
          /\ page.total = {Cardinality(listBookings_where(response.userId, response.userType,
                                                          response.input, bookings))}


\* the cancellation_fees rows of a booking
FeesOf(fees, bookingId) ==
  BagCardinality([f \in { g \in BagToSet(fees) : g.booking_id = bookingId } |->
                    CopiesIn(f, fees)])

\* C32: of the cancelBooking calls on one booking, running one after the other or at
\* once, at most one succeeds, and the booking never has more than one
\* cancellation_fees row.
OneCancelPerBooking ==
  [][/\ \A b \in BookingIds : FeesOf(cancellation_fees', b) <= 1
     /\ \A p \in Procs :
          (pc[p] = "cx_commit" /\ response'.op = "cancelBooking" /\ response'.error = None)
          => bookings[local[p].bookingId].status # "cancelled"]_vars


\* the requests of window w that were allowed, when every request of the window has
\* reached one of the two counters and Redis still holds the key: each store has
\* allowed the requests it counted up to maxRequests
AllowedIn(w) ==
  Min(rate_cache[w].count, maxRequests) + Min(rate_dynamo[w], maxRequests)

\* C33: checkRateLimit allows at most maxRequests requests of one identifier and
\* endpoint in one window, whichever of the requests find the Redis counter and
\* whichever fall back to the DynamoDB counter, as long as every request reaches one
\* of the two.  (incr and the DynamoDB ADD are atomic, so concurrent requests count
\* as requests in some order.)
AllowedWithinLimit ==
  LET w == Window(clock)
  IN (sent[w].requests = sent[w].reached
      /\ rate_cache[w].count + rate_dynamo[w] = sent[w].reached)
     => AllowedIn(w) <= maxRequests


\* the booking operations that free or move a slot, next to the availability service
NextRelease ==
  \/ createBooking_validate("w1")
  \/ createBooking_tx("w1")
  \/ createBooking_commit("w1")
  \/ updateBooking_start("w1")
  \/ updateBooking_update("w1")
  \/ cancelBooking_start("w1")
  \/ cancelBooking_commit("w1")
  \/ getDoctorAvailability_request
  \/ Return

SpecRelease == Init /\ [][NextRelease]_vars

\* a pending or confirmed booking of the doctor at time t
HeldAt(bks, doctorId, t) ==
  \E b \in DOMAIN bks :
    /\ bks[b].doctor_id = doctorId
    /\ bks[b].appointment_time = t
    /\ bks[b].status \in {"pending", "confirmed"}

\* what a getDoctorAvailability(doctorId, date of t) call with the cache reachable
\* reports of the slots at t, under every service-type filter: TRUE for available
ReportedAt(doctorId, t, rows, c, bks) ==
  LET reported(serviceTypeId, schedules) ==
        UNION { { a.timeSlots[i].available :
                    i \in { j \in DOMAIN a.timeSlots :
                              a.timeSlots[j].time = toTimeString(t) } } :
                a \in getDoctorAvailability(doctorId, DateOf(t), serviceTypeId, TRUE, TRUE,
                                            schedules, c, bks).ret }
  IN UNION { UNION { reported(serviceTypeId, schedules) :
                       schedules \in getDoctorSchedules(doctorId, DateOf(t) % 7,
                                                        serviceTypeId, rows) } :
             serviceTypeId \in ServiceFilters }

\* C34: right after a cancelBooking of a pending or confirmed booking at time t has
\* returned, and right after an updateBooking that moved such a booking from t to t'
\* has returned, a getDoctorAvailability call for that doctor and date reports the slot
\* at t as available when no other pending or confirmed booking holds it, and the slot
\* at t' as unavailable, also when the availability of the date is still in the cache.
SlotFreedAndTaken ==
  [][\A p \in Procs :
       LET id == local[p].bookingId
           doctorId == bookings[id].doctor_id
           t == bookings[id].appointment_time
           moved == bookings'[id].appointment_time
       IN /\ (/\ pc[p] = "cx_commit"
              /\ response'.op = "cancelBooking" /\ response'.error = None
              /\ bookings[id].status \in {"pending", "confirmed"}
              /\ ~HeldAt(bookings', doctorId, t))
             => FALSE \notin ReportedAt(doctorId, t, schedule_rows', availability', bookings')
          /\ (/\ pc[p] = "ub_update"
              /\ response'.op = "updateBooking" /\ response'.error = None
              /\ bookings[id].status \in {"pending", "confirmed"}
              /\ moved # t)
             => /\ TRUE \notin ReportedAt(doctorId, moved, schedule_rows', availability',
                                          bookings')
                /\ ~HeldAt(bookings', doctorId, t)
                     => FALSE \notin ReportedAt(doctorId, t, schedule_rows', availability',
                                                bookings')]_vars


\* doctor_schedules tables: the reference rows; a window of s1 next to a window
\* without a service type; that window alone
BookableTables ==
  { doctor_schedules,
    { Monday(9 * 60, 10 * 60, 45, "s1"), Monday(13 * 60, 14 * 60, 60, None) },
    { Monday(13 * 60, 14 * 60, 60, None) } }

InitBookable ==
  /\ schedule_rows \in BookableTables
  /\ bookings \in SlotBookingTables
  /\ qr_codes = DOMAIN bookings
  /\ calls = Cardinality(DOMAIN bookings)
  /\ cancellation_fees = EmptyBag
  /\ patient_insurance = {"i1"}
  /\ payment_intents = {}
  /\ cache = [b \in BookingIds |-> {}]
  /\ pc = [p \in Procs |-> "idle"]
  /\ local = [p \in Procs |-> NoLocal]
  /\ tx = [p \in Procs |-> NoTx]
  /\ response = NoResp
  /\ blocked_slots = {}
  /\ availability = [k \in AvailabilityKeys |-> {}]
  /\ clock = 0
  /\ rate_cache = [w \in Windows |-> NoCounter]
  /\ rate_dynamo = [w \in Windows |-> 0]
  /\ sent = [w \in Windows |-> NoSent]
  /\ policy_rows = cancellation_policies
  /\ effects = [p \in Procs |-> <<>>]
  /\ bucket = TokenBucket(1, 1, 0)

NextBookable ==
  \/ getDoctorAvailability_onDate
  \/ AvailabilityExpire
  \/ Return

SpecBookable == InitBookable /\ [][NextBookable]_vars

\* C35: every slot that getDoctorAvailability(P, D, S) reports available can be booked
\* then: for doctor P, service type S and the date and time of the slot, the
\* service-type check and the time-slot check of validateCreateBooking pass, also for
\* a slot of a schedule without a service type.
AvailableMeansBookable ==
  (response.op = "getDoctorAvailability" /\ response.input.serviceTypeId # None)
  => \A a \in response.ret :
       \A i \in DOMAIN a.timeSlots :
         a.timeSlots[i].available
         => /\ validateServiceType(response.input.serviceTypeId, response.input.doctorId) = {}
            /\ validateTimeSlot(response.input.doctorId,
                                response.input.date * MinutesPerDay + a.timeSlots[i].time,
                                NoId, bookings) = {}


\* C36: validateCreateBooking accepts an appointment time only if it is a slot start
\* (window start + k * slot duration, before the window end) of an active schedule of
\* the doctor on that weekday: the times at which getDoctorAvailability generates a
\* slot, and so can mark one unavailable for the booking.
AcceptedTimesAreSlotStarts ==
  (response.op = "validateCreateBooking" /\ response.error = None)
  => \E ds \in schedule_rows :
       /\ ds.doctor_id = response.input.doctorId
       /\ ds.day_of_week = getDay(response.input.appointmentTime.t)
       /\ ds.is_active
       /\ SlotStartOf(ds, toTimeString(response.input.appointmentTime.t))


\* C37: for the same stored booking, requester id and role value, getBooking gives
\* the answer it gives when loading from storage also when the cache holds a copy of
\* the stored booking and the booking is served from it.
CacheAndStorageAnswerAlike ==
  [][(/\ response.op = None
      /\ response'.op = "getBooking"
      /\ response'.bookingId \in DOMAIN bookings
      /\ cache[response'.bookingId] = {bookings[response'.bookingId]})
     => response'.ret = getBooking(response'.bookingId, response'.userId,
                                   response'.userType, FALSE, FALSE, cache, bookings).ret]_vars


\* C38: a call of createBooking, cancelBooking or updateDoctorSchedule ends its
\* transaction with no more than one commitTransaction or rollbackTransaction, and
\* never issues rollbackTransaction after its commitTransaction has succeeded.
TransactionEndedOnce ==
  \A p \in Procs :
    LET made == effects[p]
        ends == { i \in DOMAIN made : made[i] \in {CommitTransaction, RollbackTransaction} }
    IN /\ Cardinality(ends) <= 1
       /\ \A i \in DOMAIN made :
            made[i] = RollbackTransaction
              => \A j \in 1..(i - 1) : made[j] # CommitTransaction


(***************************************************************************)
(* The rate limiter of the booking-create handler                          *)
(***************************************************************************)
\* the argument of createRateLimitMiddleware in the booking-create handler
customConfig == [maxRequests |-> 5, windowMs |-> 60000]
\* POST /bookings requests of the two subjects
BookingCreateEvents ==
  { RateEvent({s}, {"203.0.113.7"}, "POST", "/bookings") : s \in RateSubjects }
BookingCreateKeys == { RateLimitKey(event, 0) : event \in BookingCreateEvents }

\* the middleware createRateLimitMiddleware(config) returns, applied to event: it
\* builds a RateLimiter without arguments and calls checkRateLimit(event); config is
\* not read
createRateLimitMiddleware(config, event, now, cacheOk, dynamoOk, rc, rd) ==
  checkRateLimit_event(event, now, cacheOk, dynamoOk, rc, rd)

\* the booking-create handler applies its rate limiter to a request
handler_rateLimiter ==
  /\ response.op = None
  /\ SentInAll(sent) < MaxSent
  /\ \E event \in BookingCreateEvents, cacheOk \in BOOLEAN :
       LET got == createRateLimitMiddleware(customConfig, event, clock, cacheOk, TRUE,
                                            rate_cache, rate_dynamo)
           key == RateLimitKey(event, clock)
       IN /\ rate_cache' = got.cache
          /\ rate_dynamo' = got.table
          /\ sent' = [sent EXCEPT ![key] = [requests |-> @.requests + 1,
                                            reached |-> @.reached + 1]]
          /\ response' = Resp("rateLimiter", None, NoId,
                              [event |-> event, cacheOk |-> cacheOk],
                              None, None, got.result)
  /\ UNCHANGED <<bookingVars, availVars, clock, policyVars, effectVars, bucketVars>>

InitMiddleware ==
  /\ bookings = <<>>
  /\ qr_codes = {}
  /\ cancellation_fees = EmptyBag
  /\ patient_insurance = {"i1"}
  /\ payment_intents = {}
  /\ cache = [b \in BookingIds |-> {}]
  /\ pc = [p \in Procs |-> "idle"]
  /\ local = [p \in Procs |-> NoLocal]
  /\ tx = [p \in Procs |-> NoTx]
  /\ response = NoResp
  /\ calls = 0
  /\ schedule_rows = doctor_schedules
  /\ blocked_slots = {}
  /\ availability = [k \in AvailabilityKeys |-> {}]
  /\ clock = 0
  /\ rate_cache = [k \in BookingCreateKeys |-> NoCounter]
  /\ rate_dynamo = [k \in BookingCreateKeys |-> 0]
  /\ sent = [k \in BookingCreateKeys |-> NoSent]
  /\ policy_rows = cancellation_policies
  /\ effects = [p \in Procs |-> <<>>]
  /\ bucket = TokenBucket(1, 1, 0)

NextMiddleware ==
  \/ handler_rateLimiter
  \/ Return

SpecMiddleware == InitMiddleware /\ [][NextMiddleware]_vars

\* C39: the rate limiter of the booking-create handler, made with maxRequests 5 and
\* windowMs 60000, denies every request of a user beyond the 5th of one window (all
\* of them counted by Redis).
CustomConfigEnforced ==
  (/\ response.op = "rateLimiter"
   /\ LET key == RateLimitKey(response.input.event, clock)
      IN /\ sent[key].requests > customConfig.maxRequests
         /\ rate_cache[key].count = sent[key].requests)
  => response.ret # {}


(***************************************************************************)
(* The loops of generateTimeSlots, one turn at a time, over the rows that   *)
(* updateDoctorSchedule stores.                                             *)
(***************************************************************************)
\* the schedule lists of the modelled updateDoctorSchedule calls: one Monday window
\* from 10:00, its end before or after the start, its slot duration negative,
\* zero or positive (nothing in updateDoctorSchedule or in the table rejects any)
GenerateInputs ==
  { {[dayOfWeek |-> 1, startTime |-> 10 * 60, endTime |-> endTime,
      slotDurationMinutes |-> slotDurationMinutes, serviceTypeId |-> "s1"]} :
      endTime \in {9 * 60, 11 * 60}, slotDurationMinutes \in {0 - 30, 0, 30} }
\* turns of the while loop that one generateTimeSlots call is followed for, at most
MaxLoopTurns == 8

\* the locals of a running generateTimeSlots call: the schedules still to go through
\* (the first is the one of the running while loop), currentSlot, and the number of
\* slots pushed so far
SlotLoop(schedules, currentSlot, pushed) ==
  [schedules |-> schedules, currentSlot |-> currentSlot, pushed |-> pushed]

\* generateTimeSlots is entered with the schedules of d1 for a Monday: lines 283-299,
\* up to currentSlot = startTime.clone() of the first schedule
generateTimeSlots_for(p) ==
  /\ pc[p] = "idle" /\ response.op = None
  /\ \E schedules \in getDoctorSchedules("d1", 1, None, schedule_rows) :
       /\ schedules # <<>>
       /\ local' = [local EXCEPT ![p] =
                      [NoLocal EXCEPT !.input =
                         SlotLoop(schedules, Head(schedules).start_time, 0)]]
       /\ pc' = [pc EXCEPT ![p] = "gs_while"]
  /\ UNCHANGED <<bookings, qr_codes, cancellation_fees, patient_insurance, payment_intents,
                 cache, tx, calls, response>>
  /\ UNCHANGED <<availVars, rateVars, policyVars, effectVars, bucketVars>>

\* one turn of the while loop, lines 301-325: currentSlot.isBefore(endTime) holds, a
\* slot is pushed, and currentSlot.add(slotDuration, 'minutes')
generateTimeSlots_while(p) ==
  /\ pc[p] = "gs_while" /\ response.op = None
  /\ LET loop == local[p].input
         schedule == Head(loop.schedules)
     IN /\ loop.currentSlot < schedule.end_time
        /\ loop.pushed < MaxLoopTurns
        /\ local' = [local EXCEPT ![p].input =
                       SlotLoop(loop.schedules,
                                loop.currentSlot + schedule.slot_duration_minutes,
                                loop.pushed + 1)]
  /\ UNCHANGED <<bookings, qr_codes, cancellation_fees, patient_insurance, payment_intents,
                 cache, pc, tx, calls, response>>
  /\ UNCHANGED <<availVars, rateVars, policyVars, effectVars, bucketVars>>

\* the while loop of a schedule ends (currentSlot.isBefore(endTime) is false): the
\* for loop goes to the next schedule, or generateTimeSlots returns the slots
generateTimeSlots_next(p) ==
  /\ pc[p] = "gs_while" /\ response.op = None
  /\ LET loop == local[p].input
         schedule == Head(loop.schedules)
         rest == Tail(loop.schedules)
     IN /\ ~(loop.currentSlot < schedule.end_time)
        /\ IF rest # <<>>
           THEN /\ local' = [local EXCEPT ![p].input =
                               SlotLoop(rest, Head(rest).start_time, loop.pushed)]
                /\ UNCHANGED <<pc, tx, response>>
           ELSE Finish(p, Resp("generateTimeSlots", None, NoId, NoInput, None, None,
                               {[timeSlots |-> loop.pushed]}))
  /\ UNCHANGED <<bookings, qr_codes, cancellation_fees, patient_insurance, payment_intents,
                 cache, calls>>
  /\ UNCHANGED <<availVars, rateVars, policyVars, effectVars, bucketVars>>

NextGenerate ==
  \/ updateDoctorSchedule_from("w1", GenerateInputs)
  \/ updateDoctorSchedule_commit("w1")
  \/ generateTimeSlots_for("w2")
  \/ generateTimeSlots_while("w2")
  \/ generateTimeSlots_next("w2")
  \/ Return

SpecGenerate == Init /\ [][NextGenerate]_vars

\* C40: for every active schedule row that updateDoctorSchedule has stored, each turn
\* of the while loop of generateTimeSlots leaves fewer minutes between currentSlot and
\* the row's end_time than there were, so that the loop ends within end_time -
\* start_time turns and generateTimeSlots returns a finite slot list.
EveryTurnNearsTheEnd ==
  [][\A p \in Procs :
       (/\ pc[p] = "gs_while" /\ pc'[p] = "gs_while"
        /\ local'[p].input.pushed = local[p].input.pushed + 1)
       => LET endTime == Head(local[p].input.schedules).end_time
          IN endTime - local'[p].input.currentSlot < endTime - local[p].input.currentSlot]_vars

============================================================================
